---------------------------- MODULE Spec2Model ----------------------------
(***************************************************************************)
(* Pure-JS-Diagrammer: the layout code of render/flowchart.js,             *)
(* render/sequence.js, render/erd.js and render/svg.js (wrapText).         *)
(*                                                                         *)
(* Five specifications share the module:                                   *)
(*   FlowSpec    renderFlowchart: buildGraph, assignLayers, positionNodes, *)
(*               the edge paths and the viewBox                            *)
(*   SeqSpec     renderSequence                                            *)
(*   WrapSpec    wrapText / measureText                                    *)
(*   ERDSpec     renderERD: box sizing, layoutEntitiesGrid, the            *)
(*               relationship lines and the viewBox                        *)
(*   RenderSpec  compileAndRender called twice on one jsonData object      *)
(* The first four hold the variables of the other components at their idle *)
(* values.                                                                 *)
(***************************************************************************)
EXTENDS Integers, Sequences, FiniteSets, TLC

VARIABLES
    pc,               \* position of the running render call
    \* ---- the call
    jsonType,         \* jsonData.type
    absent,           \* the collections jsonData lacks (undefined properties)
    givenData,        \* the caller's collections as they were when first passed
    svgContainer,     \* the content of the SVG container passed to the renderer
    callNo,           \* 1 in the first call on the object, 2 in the second
    firstOutcome,     \* what the first call drew and returned
    compileResult,    \* what compileAndRender returned without rendering
    \* ---- renderFlowchart
    nodes,            \* data.nodes: the input list of node ids
    edges,            \* data.edges: the input list of [from, to]
    adj,              \* graph.adj: id -> list of successor ids
    inDegree,         \* graph.inDegree: id -> count (decremented by the pass)
    q,                \* the Kahn queue (never shrinks; head walks it)
    head,             \* index of the next node to dequeue (0-based)
    layers,           \* Map layerIndex -> list of node ids
    nodeLayers,       \* Map nodeId -> layerIndex
    nodesMap,         \* Map nodeId -> [x, y] (width, height are constants)
    positionedNodes,  \* list of node ids in the order positionNodes pushed them
    edgePaths,        \* the edge paths appended to the SVG, in order
    flowResult,       \* what renderFlowchart returned
    \* ---- wrapText
    text,             \* the text argument, a list of characters
    maxWidth,         \* the maxWidth argument
    metric,           \* the measurement in use: character -> advance width
    lines,            \* the returned list of lines
    \* ---- renderSequence
    participants,     \* data.participants: the input list of names
    messages,         \* data.messages: the input list of [from, to, text]
    participantX,     \* Map name -> x of the header center and lifeline
    msgIdx,           \* number of messages the forEach has visited
    currentY,         \* the running y-cursor
    maxMessageY,      \* the lowest message y so far
    drawn,            \* the message arrows appended to the SVG, in order
    lifelineY2,       \* y2 of every lifeline
    seqResult,        \* what the call returned: [success, viewBox], or "threw"
    \* ---- renderERD
    entities,         \* data.entities: the input list of entities
    relationships,    \* data.relationships: the input list of [from, to, cardinality]
    entitiesMap,      \* the values of the Map name -> entity copy, insertion order
    sortedEntities,   \* the array layoutEntitiesGrid sorted in place
    grid,             \* layoutEntitiesGrid's currentX, currentY, rowMaxHeight
    placedEntities,   \* the entities placed so far, with x and y
    relationshipLines,\* the relationship lines appended to the SVG, in order
    erdResult,        \* what renderERD returned
    \* ---- validate._validateERD
    erdData,          \* data.entities as given to validate
    vIdx,             \* number of entities the forEach has visited
    entityNames,      \* the Set of entity names seen so far
    entityAttributes, \* Map entity name -> Set of attribute names seen so far
    errors,           \* the errors pushed so far, in order
    \* ---- script.js, share URL
    editorValue,      \* jsonEditor.value, a list of code points
    locationLength,   \* length of window.location.origin + pathname
    clipboard,        \* the hash part of the URL written to the clipboard
    shareOutcome,     \* what the 'Copy Share URL' handler did
    initialJson,      \* what init decoded from the hash
    loadOutcome,      \* what init did with the hash
    \* ---- script.js and core/editor.js, render scheduling
    now,              \* the clock, in milliseconds
    timers,           \* the timeouts the browser holds, not yet run or cleared
    nextTimer,        \* the id the next setTimeout returns
    timeoutId,        \* "timeoutId" in the closure of debounce
    callLog,          \* the calls of the debounced function so far
    renderLog         \* the runs of renderDiagram so far

callVars == <<jsonType, absent, givenData, callNo, firstOutcome, compileResult>>

flowVars == <<nodes, edges, adj, inDegree, q, head, layers, nodeLayers,
              nodesMap, positionedNodes, edgePaths, flowResult>>

wrapVars == <<text, maxWidth, metric, lines>>

seqVars == <<participants, messages, participantX, msgIdx, currentY,
             maxMessageY, drawn, lifelineY2, seqResult>>

erdVars == <<entities, relationships, entitiesMap, sortedEntities, grid,
             placedEntities, relationshipLines, erdResult>>

\* ---- validate._validateERD
validateVars == <<erdData, vIdx, entityNames, entityAttributes, errors>>

\* the variables of the editor page around the layout code
shareVars == <<editorValue, locationLength, clipboard, shareOutcome, initialJson, loadOutcome>>
schedVars == <<now, timers, nextTimer, timeoutId, callLog, renderLog>>
appVars == <<validateVars, shareVars, schedVars>>

\* the variables of compileAndRender and the layout code
layoutVars == <<svgContainer, callVars, flowVars, wrapVars, seqVars, erdVars>>

vars == <<pc, layoutVars, appVars>>

\* ------------------------------------------------------------------ bounds
MaxNodes == 3
MaxEdges == 3
MaxTextLen == 5
MaxWidth == 6
MaxParticipants == 2
MaxMessages == 2
MaxEntities == 3
MaxRenderItems == 3
MaxValEntities == 2
MaxValAttributes == 2
MaxShareLen == 3
MaxTicks == 5
MaxCalls == 3
MaxExplicit == 1

\* --------------------------------------------------------------- constants
NODE_WIDTH == 180
NODE_HEIGHT == 80
H_GAP == 80
V_GAP == 100
PARTICIPANT_WIDTH == 120
PARTICIPANT_HEIGHT == 40
LIFELINE_Y_START == 80
MESSAGE_HEIGHT == 60
HORIZONTAL_MARGIN == 50
LIFELINE_OFFSET == 20
ENTITY_HEADER_HEIGHT == 30
ATTRIBUTE_HEIGHT == 20
ENTITY_PADDING_X == 15
ENTITY_PADDING_Y == 10
ENTITY_MIN_WIDTH == 150
ENTITY_MAX_WIDTH == 300
ENTITY_H_GAP == 80
ENTITY_V_GAP == 80
ROW_WIDTH == 800

\* ----------------------------------------------------------------- helpers
Range(s) == {s[i] : i \in 1..Len(s)}

SeqsUpTo(S, n) == UNION {[1..k -> S] : k \in 0..n}

EmptyMap == <<>>

MaxOf(S) == CHOOSE m \in S : \A x \in S : x <= m

MinOf(S) == CHOOSE m \in S : \A x \in S : m <= x

\* Map.has / Map.set of a JS Map, as a function on its key set
Has(m, k) == k \in DOMAIN m

MapSet(m, k, v) == IF k \in DOMAIN m THEN [m EXCEPT ![k] = v] ELSE m @@ (k :> v)

\* Array.prototype.filter on a list, keeping order
RECURSIVE FilterSeq(_, _)
FilterSeq(s, keep) ==
    IF s = <<>> THEN <<>>
    ELSE IF Head(s) \in keep THEN <<Head(s)>> \o FilterSeq(Tail(s), keep)
         ELSE FilterSeq(Tail(s), keep)

\* position (1-based) of the first occurrence of x in s, 0 when absent
IndexOf(s, x) ==
    IF x \in Range(s) THEN MinOf({i \in 1..Len(s) : s[i] = x}) ELSE 0

Abs(n) == IF n >= 0 THEN n ELSE 0 - n

\* a JS number that may be infinite: inf is 0 for the finite number n, 1 for
\* Infinity and -1 for -Infinity
Fin(n) == [inf |-> 0, n |-> n]

PosInfinity == [inf |-> 1, n |-> 0]

NegInfinity == [inf |-> 0 - 1, n |-> 0]

IsFinite(a) == a.inf = 0

\* a + b and -a (Infinity + -Infinity, which is NaN, is never formed here)
NumPlus(a, b) ==
    IF IsFinite(a) /\ IsFinite(b) THEN Fin(a.n + b.n)
    ELSE IF IsFinite(a) THEN b ELSE a

NumNeg(a) == [inf |-> 0 - a.inf, n |-> 0 - a.n]

\* Math.min(...S) and Math.max(...S): Infinity and -Infinity without arguments
MathMin(S) == IF S = {} THEN PosInfinity ELSE Fin(MinOf(S))

MathMax(S) == IF S = {} THEN NegInfinity ELSE Fin(MaxOf(S))

\* ------------------------------------------------------------- the call
DiagramTypes == {"flowchart", "sequence", "erd"}

\* the two collections a renderer requires of its data
Required(type) ==
    IF type = "flowchart" THEN {"nodes", "edges"}
    ELSE IF type = "sequence" THEN {"participants", "messages"}
    ELSE IF type = "erd" THEN {"entities", "relationships"}
    ELSE {}

\* the ways a required collection can be missing
AbsentSets(type) == SUBSET Required(type) \ {{}}

\* "if (!data.a || !data.b)": a collection that is missing is undefined
ShapeError(type) == absent \cap Required(type) # {}

\* a single call of one renderer, as FlowSpec, SeqSpec, WrapSpec and ERDSpec
\* make it
SingleCall(type) ==
    /\ jsonType = type
    /\ svgContainer = "previous content"
    /\ callNo = 1
    /\ firstOutcome = <<>>
    /\ compileResult = "none"

\* no render call is running
CallIdle ==
    /\ SingleCall("none")
    /\ absent = {}
    /\ givenData = <<>>

\* ------------------------------------- a component that is not running
FlowIdle ==
    /\ nodes = <<>>
    /\ edges = <<>>
    /\ adj = EmptyMap
    /\ inDegree = EmptyMap
    /\ q = <<>>
    /\ head = 0
    /\ layers = EmptyMap
    /\ nodeLayers = EmptyMap
    /\ nodesMap = EmptyMap
    /\ positionedNodes = <<>>
    /\ edgePaths = <<>>
    /\ flowResult = "none"

WrapIdle ==
    /\ text = <<>>
    /\ maxWidth = 0
    /\ metric = EmptyMap
    /\ lines = <<>>

SeqIdle ==
    /\ participants = <<>>
    /\ messages = <<>>
    /\ participantX = EmptyMap
    /\ msgIdx = 0
    /\ currentY = 0
    /\ maxMessageY = 0
    /\ drawn = <<>>
    /\ lifelineY2 = 0
    /\ seqResult = "none"

ERDIdle ==
    /\ entities = <<>>
    /\ relationships = <<>>
    /\ entitiesMap = <<>>
    /\ sortedEntities = <<>>
    /\ grid = [currentX |-> 0, currentY |-> 0, rowMaxHeight |-> 0]
    /\ placedEntities = <<>>
    /\ relationshipLines = <<>>
    /\ erdResult = "none"

ValidateIdle ==
    /\ erdData = <<>>
    /\ vIdx = 0
    /\ entityNames = {}
    /\ entityAttributes = EmptyMap
    /\ errors = <<>>

\* nothing of the page around the layout code is running
ShareIdle ==
    /\ editorValue = <<>>
    /\ locationLength = 0
    /\ clipboard = <<>>
    /\ shareOutcome = "none"
    /\ initialJson = <<>>
    /\ loadOutcome = "none"

NoTimer == 0

SchedIdle ==
    /\ now = 0
    /\ timers = {}
    /\ nextTimer = 1
    /\ timeoutId = NoTimer
    /\ callLog = <<>>
    /\ renderLog = <<>>

AppIdle == ValidateIdle /\ ShareIdle /\ SchedIdle

\* no layout code is running
LayoutIdle ==
    /\ CallIdle
    /\ FlowIdle
    /\ WrapIdle
    /\ SeqIdle
    /\ ERDIdle

\* the locals of the three renderers before a call
FlowCleared ==
    /\ adj = EmptyMap
    /\ inDegree = EmptyMap
    /\ q = <<>>
    /\ head = 0
    /\ layers = EmptyMap
    /\ nodeLayers = EmptyMap
    /\ nodesMap = EmptyMap
    /\ positionedNodes = <<>>
    /\ edgePaths = <<>>
    /\ flowResult = "none"

SeqCleared ==
    /\ participantX = EmptyMap
    /\ msgIdx = 0
    /\ currentY = 0
    /\ maxMessageY = 0
    /\ drawn = <<>>
    /\ lifelineY2 = 0
    /\ seqResult = "none"

ERDCleared ==
    /\ entitiesMap = <<>>
    /\ sortedEntities = <<>>
    /\ grid = [currentX |-> 0, currentY |-> 0, rowMaxHeight |-> 0]
    /\ placedEntities = <<>>
    /\ relationshipLines = <<>>
    /\ erdResult = "none"

\* ================================================================== svg.js
Chars == {"a", "W", " "}

\* the measurements tried: every assignment of an advance width to a character
Metrics == [Chars -> 1..2]

RECURSIVE SumWidths(_, _)
SumWidths(t, m) == IF t = <<>> THEN 0 ELSE m[Head(t)] + SumWidths(Tail(t), m)

\* measureText(text, fontSize, fontFamily): 0 for the empty text, else the
\* computed text length under the font, here the sum of the advance widths
measureText(t, m) == IF t = <<>> THEN 0 ELSE SumWidths(t, m)

\* text.split(" ") from position i on; cur is the token being read
RECURSIVE splitFrom(_, _, _)
splitFrom(t, i, cur) ==
    IF i > Len(t) THEN <<cur>>
    ELSE IF t[i] = " " THEN <<cur>> \o splitFrom(t, i + 1, <<>>)
         ELSE splitFrom(t, i + 1, Append(cur, t[i]))

\* mutant: a split on runs of spaces, which yields no empty token
SplitSkipEmpty(t) ==
    LET all == splitFrom(t, 1, <<>>)
        kept == SelectSeq(all, LAMBDA w : w # <<>>)
    IN  IF kept = <<>> THEN <<<<>>>> ELSE kept

\* text.split(" ")
Split(t) == splitFrom(t, 1, <<>>)

\* mutant: a line may run one unit over maxWidth
FitsLoose(line, mw, m) == measureText(line, m) <= mw + 1

\* measureText(line, fontSize, fontFamily) <= maxWidth
Fits(line, mw, m) == measureText(line, m) <= mw

\* wrapText, the loop "for (let i = 1; i < words.length; i++)" from the i-th
\* word (1-based) on, and the final lines.push(currentLine)
RECURSIVE wrapFrom(_, _, _, _, _, _)
wrapFrom(words, i, currentLine, ls, mw, m) ==
    IF i > Len(words) THEN Append(ls, currentLine)
    ELSE LET word == words[i]
             testLine == currentLine \o <<" ">> \o word
         IN  IF Fits(testLine, mw, m)
             THEN wrapFrom(words, i + 1, testLine, ls, mw, m)
             ELSE wrapFrom(words, i + 1, word, Append(ls, currentLine), mw, m)

wrapText(t, mw, m) ==
    IF Fits(t, mw, m) THEN <<t>>
    ELSE LET words == Split(t)
         IN  wrapFrom(words, 2, words[1], <<>>, mw, m)

WrapInit ==
    /\ pc = "wrap_start"
    /\ text \in SeqsUpTo(Chars, MaxTextLen)
    /\ maxWidth \in -1..MaxWidth
    /\ metric \in Metrics
    /\ lines = <<>>
    /\ CallIdle
    /\ FlowIdle
    /\ SeqIdle
    /\ ERDIdle
    /\ AppIdle

\* lines = wrapText(text, maxWidth, fontSize, fontFamily)
WrapCall ==
    /\ pc = "wrap_start"
    /\ lines' = wrapText(text, maxWidth, metric)
    /\ pc' = "wrap_done"
    /\ UNCHANGED <<text, maxWidth, metric>>

WrapNext ==
    WrapCall /\ UNCHANGED <<svgContainer, callVars, flowVars, seqVars, erdVars, appVars>>

WrapSpec == WrapInit /\ [][WrapNext]_vars

\* ---------------------------------------------------------- wrapText claims
\* lines.join(" ")
RECURSIVE Join(_)
Join(ls) ==
    IF ls = <<>> THEN <<>>
    ELSE IF Len(ls) = 1 THEN ls[1]
         ELSE ls[1] \o <<" ">> \o Join(Tail(ls))

\* w is a maximal space-free token of t: it stands between two spaces, or
\* between a space and an end of t, and holds no space (between two adjacent
\* spaces, and in the empty text, the token is empty)
IsWordOf(w, t) ==
    /\ " " \notin Range(w)
    /\ \E p \in 1..(Len(t) + 1) :
          /\ p + Len(w) - 1 <= Len(t)
          /\ \A k \in 1..Len(w) : t[p + k - 1] = w[k]
          /\ p = 1 \/ t[p - 1] = " "
          /\ p + Len(w) - 1 = Len(t) \/ t[p + Len(w)] = " "

WrapDone == pc = "wrap_done"

\* C8: every returned line measures at most maxWidth or is one word of the
\* text, unshortened, that alone exceeds maxWidth; a text that fits as a whole
\* comes back as the single line [text]
C8_LinesFitOrSingleWord ==
    WrapDone =>
        /\ \A i \in 1..Len(lines) :
              \/ measureText(lines[i], metric) <= maxWidth
              \/ IsWordOf(lines[i], text) /\ measureText(lines[i], metric) > maxWidth
        /\ measureText(text, metric) <= maxWidth => lines = <<text>>

\* a wrapped text with a line that fits and spans a space, and a line that is
\* one word wider than maxWidth
C8_Witness ==
    /\ WrapDone
    /\ maxWidth >= 1
    /\ Len(lines) >= 2
    /\ \E i \in 1..Len(lines) :
          measureText(lines[i], metric) > maxWidth /\ lines[i] # <<>>
    /\ \E i \in 1..Len(lines) :
          measureText(lines[i], metric) <= maxWidth /\ " " \in Range(lines[i])

\* C9: joining the returned lines with single spaces gives back the text
C9_JoinRoundTrip ==
    WrapDone => Join(lines) = text

\* a wrapped text with a leading space and a run of two spaces
C9_Witness ==
    /\ WrapDone
    /\ Len(lines) >= 3
    /\ Len(text) >= 4
    /\ maxWidth >= 1
    /\ text[1] = " "
    /\ \E i \in 1..(Len(text) - 1) : i > 1 /\ text[i] = " " /\ text[i + 1] = " "
    /\ Join(lines) = text

\* ============================================================== sequence.js
Digits == {"0", "1", "2", "3", "4", "5", "6", "7", "8", "9"}

\* the characters the regular expression class \s matches, among those used
WhiteSpace == {" ", "\t", "\n"}

\* the message texts tried
MessageTexts ==
    { <<"2", "0", "0", " ", "O", "K">>,
      <<"G", "E", "T", " ", "/", "i", "t", "e", "m", "s">>,
      <<"2", "0", "0">>,
      <<"2", "0", "0", "0", " ", "O", "K">>,
      <<"2", "0", "0", "\t", "O", "K">>,
      <<"2", "0", " ", "O", "K">> }

\* mutant: the pattern lacks the trailing \s
IsReplyDigitsOnly(t) ==
    /\ Len(t) >= 3
    /\ \A i \in 1..3 : t[i] \in Digits

\* msg.text.match(/^\d{3}\s/)
IsReply(t) ==
    /\ Len(t) >= 4
    /\ \A i \in 1..3 : t[i] \in Digits
    /\ t[4] \in WhiteSpace

\* mutant: the cursor is advanced after the arrow is drawn
MessageYLate(y) == y

\* "currentY += MESSAGE_HEIGHT", the y of the message being drawn
MessageY(y) == y + MESSAGE_HEIGHT

\* participantSpacing. 500 / (n - 1) is at least 200 only for n - 1 <= 2, where
\* the division is exact, so the integer quotient yields the same maximum.
ParticipantSpacing(numParticipants) ==
    LET a == PARTICIPANT_WIDTH + 80
        b == (IF numParticipants > 1 THEN 500 ELSE 0)
                \div (IF numParticipants - 1 # 0 THEN numParticipants - 1 ELSE 1)
    IN  IF a >= b THEN a ELSE b

\* x of the i-th participant (0-based)
SlotX(numParticipants, i) ==
    HORIZONTAL_MARGIN + PARTICIPANT_WIDTH \div 2
        + i * (PARTICIPANT_WIDTH + ParticipantSpacing(numParticipants))

SvgWidth(numParticipants) ==
    numParticipants * PARTICIPANT_WIDTH
        + (numParticipants - 1) * ParticipantSpacing(numParticipants)
        + HORIZONTAL_MARGIN * 2

ParticipantLists == {[i \in 1..n |-> i] : n \in 0..MaxParticipants}

MessageRecs == [from : 1..MaxParticipants, to : 1..MaxParticipants,
                text : MessageTexts]

\* the state of a renderSequence call at its start
SeqStart == pc = "seq_start" /\ SeqCleared

SeqInit ==
    /\ absent \in {{}} \cup AbsentSets("sequence")
    /\ IF absent = {}
       THEN /\ participants \in ParticipantLists
            /\ messages \in SeqsUpTo(MessageRecs, MaxMessages)
       ELSE participants = <<>> /\ messages = <<>>
    /\ givenData = [participants |-> participants, messages |-> messages]
    /\ SeqStart
    /\ SingleCall("sequence")
    /\ FlowIdle
    /\ WrapIdle
    /\ ERDIdle
    /\ AppIdle

\* renderSequence, the check of the data's shape: it returns before it
\* touches the container
SeqShapeError ==
    /\ pc = "seq_start"
    /\ ShapeError("sequence")
    /\ seqResult' = [success |-> FALSE,
                     error |-> "Invalid sequence data: missing participants or messages"]
    /\ pc' = "seq_failed"
    /\ UNCHANGED <<svgContainer, participants, messages, participantX, msgIdx,
                   currentY, maxMessageY, drawn, lifelineY2>>

\* renderSequence with no participant: the early return
SeqEmpty ==
    /\ pc = "seq_start"
    /\ ~ShapeError("sequence")
    /\ svgContainer' = "defs and drawing"
    /\ Len(participants) = 0
    /\ seqResult' = [success |-> TRUE, viewBox |-> <<0, 0, 100, 100>>]
    /\ pc' = "seq_done"
    /\ UNCHANGED <<participants, messages, participantX, msgIdx, currentY,
                   maxMessageY, drawn, lifelineY2>>

\* renderSequence up to the message loop: the slots, the headers and the
\* lifelines of zero length
SeqParticipants ==
    /\ pc = "seq_start"
    /\ ~ShapeError("sequence")
    /\ svgContainer' = "defs and drawing"
    /\ Len(participants) > 0
    /\ participantX' = [p \in Range(participants) |->
                          SlotX(Len(participants), IndexOf(participants, p) - 1)]
    /\ currentY' = LIFELINE_Y_START
    /\ maxMessageY' = LIFELINE_Y_START
    /\ lifelineY2' = LIFELINE_Y_START
    /\ pc' = "seq_messages"
    /\ UNCHANGED <<participants, messages, msgIdx, drawn, seqResult>>

\* messages.forEach, one message whose two participants exist
SeqMessage ==
    /\ pc = "seq_messages"
    /\ msgIdx < Len(messages)
    /\ LET msg == messages[msgIdx + 1] IN
       /\ Has(participantX, msg.from) /\ Has(participantX, msg.to)
       /\ LET fromX == participantX[msg.from]
              toX == participantX[msg.to]
              y == MessageY(currentY)
              isReply == IsReply(msg.text)
          IN  \* "if (!fromX || !toX) return" never fires: every x is positive.
              \* The label's lines come from wrapText and move nothing.
              /\ fromX # 0 /\ toX # 0
              /\ currentY' = currentY + MESSAGE_HEIGHT
              /\ drawn' = Append(drawn,
                    [fromX |-> fromX, toX |-> toX, y |-> y,
                     marker |-> IF isReply THEN "url(#replyArrowhead)"
                                ELSE "url(#arrowhead)",
                     className |-> IF isReply THEN "message-line reply"
                                   ELSE "message-line ",
                     labelX |-> (fromX + toX) \div 2,
                     labelY |-> y - 8])
              /\ maxMessageY' = IF maxMessageY >= currentY + MESSAGE_HEIGHT
                                THEN maxMessageY ELSE currentY + MESSAGE_HEIGHT
    /\ msgIdx' = msgIdx + 1
    /\ UNCHANGED <<pc, participants, messages, participantX, lifelineY2, seqResult>>

\* messages.forEach, a message naming an unknown participant:
\* participantX.get(...) is undefined and reading its .x raises a TypeError
SeqMessageUnknown ==
    /\ pc = "seq_messages"
    /\ msgIdx < Len(messages)
    /\ LET msg == messages[msgIdx + 1] IN
       ~(Has(participantX, msg.from) /\ Has(participantX, msg.to))
    /\ seqResult' = "threw"
    /\ pc' = "seq_threw"
    /\ UNCHANGED <<participants, messages, participantX, msgIdx, currentY,
                   maxMessageY, drawn, lifelineY2>>

\* after the loop: the lifelines are extended and the viewBox returned
SeqFinish ==
    /\ pc = "seq_messages"
    /\ msgIdx >= Len(messages)
    /\ lifelineY2' = maxMessageY + LIFELINE_OFFSET
    /\ seqResult' = [success |-> TRUE,
                     viewBox |-> <<0, 0, SvgWidth(Len(participants)),
                                   maxMessageY + LIFELINE_OFFSET + 30>>]
    /\ pc' = "seq_done"
    /\ UNCHANGED <<participants, messages, participantX, msgIdx, currentY,
                   maxMessageY, drawn>>

SeqNext ==
    \/ SeqShapeError /\ UNCHANGED <<callVars, flowVars, wrapVars, appVars, erdVars>>
    \/ SeqEmpty /\ UNCHANGED <<callVars, flowVars, wrapVars, appVars, erdVars>>
    \/ SeqParticipants /\ UNCHANGED <<callVars, flowVars, wrapVars, appVars, erdVars>>
    \/ SeqMessage /\ UNCHANGED <<svgContainer, callVars, flowVars, wrapVars, appVars, erdVars>>
    \/ SeqMessageUnknown /\ UNCHANGED <<svgContainer, callVars, flowVars, wrapVars, appVars, erdVars>>
    \/ SeqFinish /\ UNCHANGED <<svgContainer, callVars, flowVars, wrapVars, appVars, erdVars>>

SeqSpec == SeqInit /\ [][SeqNext]_vars

\* ---------------------------------------------------------- sequence claims
\* the participant names are all in the list (the list itself is valid by
\* construction: distinct names)
KnownEnds(k) ==
    messages[k].from \in Range(participants) /\ messages[k].to \in Range(participants)

\* C6: the drawn messages keep the input order, the k-th one (from 1) lies at
\* LIFELINE_Y_START + 60 * k, so the y's increase strictly in steps of 60
C6_MessageYIncreasing ==
    /\ Len(drawn) = (IF pc = "seq_start" THEN 0 ELSE msgIdx)
    /\ \A k \in 1..Len(drawn) :
          /\ drawn[k].y = LIFELINE_Y_START + 60 * k
          /\ drawn[k].fromX = participantX[messages[k].from]
          /\ drawn[k].toX = participantX[messages[k].to]
    /\ \A k \in 1..(Len(drawn) - 1) :
          /\ drawn[k].y < drawn[k + 1].y
          /\ drawn[k + 1].y - drawn[k].y = MESSAGE_HEIGHT

\* a finished call that drew two messages between different participants
C6_Witness ==
    /\ pc = "seq_done"
    /\ Len(drawn) >= 2
    /\ Len(drawn) = Len(messages)
    /\ drawn[1].fromX # drawn[1].toX
    /\ drawn[2].y = drawn[1].y + MESSAGE_HEIGHT

\* the text begins with three decimal digits and a whitespace character
StatusCodePrefix(t) ==
    /\ Len(t) >= 4
    /\ SubSeq(t, 1, 3) \in [1..3 -> Digits]
    /\ SubSeq(t, 4, 4) \in [1..1 -> WhiteSpace]

KnownAmong(n) == {k \in 1..n : KnownEnds(k)}

\* C13: a message whose from or to names no participant is skipped: the call
\* does not raise, no arrow is drawn for it, the y-cursor does not advance,
\* the other messages are placed and the call returns success
C13_UnknownParticipantSkipped ==
    /\ pc # "seq_threw"
    /\ pc \in {"seq_messages", "seq_done"} /\ participants # <<>> =>
          /\ Len(drawn) = Cardinality(KnownAmong(msgIdx))
          /\ currentY = LIFELINE_Y_START
                           + MESSAGE_HEIGHT * Cardinality(KnownAmong(msgIdx))
    /\ pc = "seq_done" =>
          /\ seqResult.success
          /\ participants # <<>> => msgIdx = Len(messages)

\* =================================================================== erd.js
\* the widest text of an entity (its name, or an attribute's "name: type"), as
\* measureText may report it
TextWidths == {100, 160, 400}

AttributeCounts == {0, 2}

\* the value of a property the object does not have; no size equals it
Undefined == 0 - 1

\* the cardinality strings of a relationship
Cardinalities == {"0..1", "1..1", "1..*", "0..*", "*..*"}

\* the entity names, distinct strings
EntityNames == 1..MaxEntities

\* a.localeCompare(b) orders the names by their collation rank and gives 0 for
\* distinct names that are canonically equivalent ("\u00e9" and "e\u0301");
\* names 1 and 2 are such a pair, 3 and 4 the next
CollationRank(name) == (name + 1) \div 2

EntityRecs == [name : EntityNames, textWidth : TextWidths,
               attrCount : AttributeCounts,
               calculatedWidth : {Undefined}, calculatedHeight : {Undefined}]

RelationshipRecs == [from : EntityNames, to : EntityNames,
                     cardinality : Cardinalities]

\* no relationship, or one
RelationshipLists == {<<>>} \cup {<<r>> : r \in RelationshipRecs}

\* entity.calculatedWidth
CalculatedWidth(currentEntityMaxTextWidth) ==
    LET padded == currentEntityMaxTextWidth + ENTITY_PADDING_X * 2
        atLeast == IF padded >= ENTITY_MIN_WIDTH THEN padded ELSE ENTITY_MIN_WIDTH
    IN  IF atLeast <= ENTITY_MAX_WIDTH THEN atLeast ELSE ENTITY_MAX_WIDTH

\* entity.calculatedHeight
CalculatedHeight(attrCount) ==
    ENTITY_HEADER_HEIGHT + attrCount * ATTRIBUTE_HEIGHT + ENTITY_PADDING_Y * 2

\* entities.sort((a, b) => a.name.localeCompare(b.name)): a stable sort,
\* as an insertion of e after the last element whose name is not greater
RECURSIVE InsertByName(_, _)
InsertByName(e, sorted) ==
    IF sorted = <<>> THEN <<e>>
    ELSE IF CollationRank(Head(sorted).name) <= CollationRank(e.name)
         THEN <<Head(sorted)>> \o InsertByName(e, Tail(sorted))
         ELSE <<e>> \o sorted

RECURSIVE SortByName(_)
SortByName(es) ==
    IF es = <<>> THEN <<>>
    ELSE InsertByName(es[Len(es)], SortByName(SubSeq(es, 1, Len(es) - 1)))

\* mutant: the gap is counted on one side of the comparison only
StartsNewRowLate(placedCount, currentX, calculatedWidth) ==
    /\ placedCount > 0
    /\ currentX + calculatedWidth > ROW_WIDTH + ENTITY_H_GAP

\* mutant: a row that is exactly full is wrapped too
StartsNewRowWhenFull(placedCount, currentX, calculatedWidth) ==
    /\ placedCount > 0
    /\ currentX + calculatedWidth + ENTITY_H_GAP >= ROW_WIDTH + ENTITY_H_GAP

\* the condition of the "if" in layoutEntitiesGrid's forEach
StartsNewRow(placedCount, currentX, calculatedWidth) ==
    /\ placedCount > 0
    /\ currentX + calculatedWidth + ENTITY_H_GAP > ROW_WIDTH + ENTITY_H_GAP

DistinctNames(es) == \A i, j \in 1..Len(es) : es[i].name = es[j].name => i = j

InNameOrder(es) == \A i \in 1..(Len(es) - 1) : es[i].name < es[i + 1].name

\* mutant: the line ends on the far side of the 'to' box
getClosestConnectionPointsFarSide(rect1, rect2) ==
    LET c1x == rect1.x + rect1.width \div 2
        c1y == rect1.y + rect1.height \div 2
        c2x == rect2.x + rect2.width \div 2
        c2y == rect2.y + rect2.height \div 2
        dx == c2x - c1x
        dy == c2y - c1y
    IN  IF Abs(dx) > Abs(dy)
        THEN [start |-> [x |-> IF dx > 0 THEN rect1.x + rect1.width ELSE rect1.x,
                         y |-> c1y],
              end |-> [x |-> IF dx > 0 THEN rect2.x + rect2.width ELSE rect2.x,
                       y |-> c2y]]
        ELSE [start |-> [x |-> c1x,
                         y |-> IF dy > 0 THEN rect1.y + rect1.height ELSE rect1.y],
              end |-> [x |-> c2x,
                       y |-> IF dy > 0 THEN rect2.y + rect2.height ELSE rect2.y]]

\* getClosestConnectionPoints(rect1, rect2): the "if" at its end decides
\* both points (the assignments before it are overwritten)
getClosestConnectionPoints(rect1, rect2) ==
    LET c1x == rect1.x + rect1.width \div 2
        c1y == rect1.y + rect1.height \div 2
        c2x == rect2.x + rect2.width \div 2
        c2y == rect2.y + rect2.height \div 2
        dx == c2x - c1x
        dy == c2y - c1y
    IN  IF Abs(dx) > Abs(dy)
        THEN [start |-> [x |-> IF dx > 0 THEN rect1.x + rect1.width ELSE rect1.x,
                         y |-> c1y],
              end |-> [x |-> IF dx > 0 THEN rect2.x ELSE rect2.x + rect2.width,
                       y |-> c2y]]
        ELSE [start |-> [x |-> c1x,
                         y |-> IF dy > 0 THEN rect1.y + rect1.height ELSE rect1.y],
              end |-> [x |-> c2x,
                       y |-> IF dy > 0 THEN rect2.y ELSE rect2.y + rect2.height]]

\* mutant: the fork is drawn at the start of a "1..*" line too
getCardinalityMarkerForkBothEnds(cardinality, position) ==
    IF position = "start"
    THEN IF cardinality \in {"*..*", "1..*"} THEN "url(#oneToMany)" ELSE "url(#one)"
    ELSE IF cardinality = "0..1" THEN "url(#zeroOrOne)"
    ELSE IF cardinality = "1..1" THEN "url(#one)"
    ELSE IF cardinality = "1..*" THEN "url(#oneToMany)"
    ELSE IF cardinality = "0..*" THEN "url(#zeroOrMany)"
    ELSE IF cardinality = "*..*" THEN "url(#oneToMany)"
    ELSE "url(#one)"

\* getCardinalityMarker(cardinality, position)
getCardinalityMarker(cardinality, position) ==
    IF position = "start"
    THEN IF cardinality = "*..*" THEN "url(#oneToMany)" ELSE "url(#one)"
    ELSE IF cardinality = "0..1" THEN "url(#zeroOrOne)"
    ELSE IF cardinality = "1..1" THEN "url(#one)"
    ELSE IF cardinality = "1..*" THEN "url(#oneToMany)"
    ELSE IF cardinality = "0..*" THEN "url(#zeroOrMany)"
    ELSE IF cardinality = "*..*" THEN "url(#oneToMany)"
    ELSE "url(#one)"

\* entityRects: name -> [x, y, width, height] of the boxes drawn
EntityRects(positionedEntities) ==
    [name \in {positionedEntities[i].name : i \in 1..Len(positionedEntities)} |->
        LET e == positionedEntities[
                    CHOOSE i \in 1..Len(positionedEntities) :
                        positionedEntities[i].name = name]
        IN  [x |-> e.x, y |-> e.y,
             width |-> e.calculatedWidth, height |-> e.calculatedHeight]]

\* "data.relationships.forEach" from index i on: appended holds the lines so far
RECURSIVE drawRelationships(_, _, _, _)
drawRelationships(rels, i, entityRects, appended) ==
    IF i > Len(rels) THEN appended
    ELSE LET rel == rels[i] IN
         IF ~(Has(entityRects, rel.from) /\ Has(entityRects, rel.to))
         THEN drawRelationships(rels, i + 1, entityRects, appended)
         ELSE LET pts == getClosestConnectionPoints(entityRects[rel.from],
                                                    entityRects[rel.to])
              IN  drawRelationships(rels, i + 1, entityRects,
                     Append(appended,
                        [rel |-> i, start |-> pts.start, end |-> pts.end,
                         markerStart |-> getCardinalityMarker(rel.cardinality, "start"),
                         markerEnd |-> getCardinalityMarker(rel.cardinality, "end")]))

\* "const padding = 50" of renderERD and of renderFlowchart
padding == 50

\* mutant: the viewBox hugs the boxes
ERDViewBoxTight(positionedEntities) ==
    LET idx == 1..Len(positionedEntities)
        maxX == MaxOf({0} \cup {positionedEntities[i].x
                                  + positionedEntities[i].calculatedWidth : i \in idx})
        maxY == MaxOf({0} \cup {positionedEntities[i].y
                                  + positionedEntities[i].calculatedHeight : i \in idx})
        minX == MathMin({positionedEntities[i].x : i \in idx})
        minY == MathMin({positionedEntities[i].y : i \in idx})
    IN  <<minX, minY, NumPlus(Fin(maxX), NumNeg(minX)),
          NumPlus(Fin(maxY), NumNeg(minY))>>

\* the viewBox of renderERD, from the boxes drawn
ERDViewBox(positionedEntities) ==
    LET idx == 1..Len(positionedEntities)
        maxX == MaxOf({0} \cup {positionedEntities[i].x
                                  + positionedEntities[i].calculatedWidth : i \in idx})
        maxY == MaxOf({0} \cup {positionedEntities[i].y
                                  + positionedEntities[i].calculatedHeight : i \in idx})
        minX == NumPlus(MathMin({positionedEntities[i].x : i \in idx}),
                        Fin(0 - padding \div 2))
        minY == NumPlus(MathMin({positionedEntities[i].y : i \in idx}),
                        Fin(0 - padding \div 2))
        finalWidth == NumPlus(NumPlus(Fin(maxX), NumNeg(minX)), Fin(padding))
        finalHeight == NumPlus(NumPlus(Fin(maxY), NumNeg(minY)), Fin(padding))
    IN  <<minX, minY, finalWidth, finalHeight>>

\* the inputs of renderERD: the entities in any order when there is no
\* relationship, in name order when there is one
ERDInputs ==
    /\ entities \in SeqsUpTo(EntityRecs, MaxEntities)
    /\ DistinctNames(entities)
    /\ relationships \in RelationshipLists
    /\ relationships # <<>> => InNameOrder(entities)

\* the state of a renderERD call at its start
ERDStart == pc = "erd_start" /\ ERDCleared

ERDInit ==
    /\ absent \in {{}} \cup AbsentSets("erd")
    /\ IF absent = {} THEN ERDInputs
       ELSE entities = <<>> /\ relationships = <<>>
    /\ givenData = [entities |-> entities, relationships |-> relationships]
    /\ ERDStart
    /\ SingleCall("erd")
    /\ FlowIdle
    /\ WrapIdle
    /\ SeqIdle
    /\ AppIdle

\* renderERD, the check of the data's shape: it returns before it touches
\* the container
ERDShapeError ==
    /\ pc = "erd_start"
    /\ ShapeError("erd")
    /\ erdResult' = [success |-> FALSE,
                     error |-> "Invalid ERD data: missing entities or relationships"]
    /\ pc' = "erd_failed"
    /\ UNCHANGED <<svgContainer, entities, relationships, entitiesMap,
                   sortedEntities, grid, placedEntities, relationshipLines>>

\* mutant: a size found on the input entity is padded again
ERDMeasureGrows ==
    /\ pc = "erd_start"
    /\ ~ShapeError("erd")
    /\ svgContainer' = "defs and drawing"
    /\ entities' = [i \in 1..Len(entities) |->
                      [entities[i] EXCEPT
                          !.calculatedWidth =
                              IF @ = Undefined THEN CalculatedWidth(entities[i].textWidth)
                              ELSE CalculatedWidth(@),
                          !.calculatedHeight = CalculatedHeight(entities[i].attrCount)]]
    /\ entitiesMap' = [i \in 1..Len(entities) |->
                         [name |-> entities[i].name,
                          calculatedWidth |-> entities'[i].calculatedWidth,
                          calculatedHeight |-> CalculatedHeight(entities[i].attrCount),
                          x |-> 0, y |-> 0]]
    /\ pc' = "erd_measured"
    /\ UNCHANGED <<relationships, sortedEntities, grid, placedEntities,
                   relationshipLines, erdResult>>

\* renderERD, "data.entities.forEach": the sizes are written into the input
\* entities and a copy of each, with x = y = 0, is put in entitiesMap
ERDMeasure ==
    /\ pc = "erd_start"
    /\ ~ShapeError("erd")
    /\ svgContainer' = "defs and drawing"
    /\ entities' = [i \in 1..Len(entities) |->
                      [entities[i] EXCEPT
                          !.calculatedWidth = CalculatedWidth(entities[i].textWidth),
                          !.calculatedHeight = CalculatedHeight(entities[i].attrCount)]]
    /\ entitiesMap' = [i \in 1..Len(entities) |->
                         [name |-> entities[i].name,
                          calculatedWidth |-> CalculatedWidth(entities[i].textWidth),
                          calculatedHeight |-> CalculatedHeight(entities[i].attrCount),
                          x |-> 0, y |-> 0]]
    /\ pc' = "erd_measured"
    /\ UNCHANGED <<relationships, sortedEntities, grid, placedEntities,
                   relationshipLines, erdResult>>

\* layoutEntitiesGrid(Array.from(entitiesMap.values())) up to the forEach
ERDSort ==
    /\ pc = "erd_measured"
    /\ sortedEntities' = SortByName(entitiesMap)
    /\ grid' = [currentX |-> 0, currentY |-> 0, rowMaxHeight |-> 0]
    /\ placedEntities' = <<>>
    /\ pc' = "erd_placing"
    /\ UNCHANGED <<entities, relationships, entitiesMap, relationshipLines,
                   erdResult>>

\* layoutEntitiesGrid, one iteration of "entities.forEach"
ERDPlace ==
    /\ pc = "erd_placing"
    /\ Len(placedEntities) < Len(sortedEntities)
    /\ LET entity == sortedEntities[Len(placedEntities) + 1]
           wraps == StartsNewRow(Len(placedEntities), grid.currentX,
                                 entity.calculatedWidth)
           x == IF wraps THEN 0 ELSE grid.currentX
           y == IF wraps THEN grid.currentY + grid.rowMaxHeight + ENTITY_V_GAP
                ELSE grid.currentY
           rowMax == IF wraps THEN 0 ELSE grid.rowMaxHeight
       IN  /\ placedEntities' = Append(placedEntities,
                                       [entity EXCEPT !.x = x, !.y = y])
           /\ grid' = [currentX |-> x + entity.calculatedWidth + ENTITY_H_GAP,
                       currentY |-> y,
                       rowMaxHeight |-> IF rowMax >= entity.calculatedHeight
                                        THEN rowMax ELSE entity.calculatedHeight]
    /\ UNCHANGED <<pc, entities, relationships, entitiesMap, sortedEntities,
                   relationshipLines, erdResult>>

\* layoutEntitiesGrid returns placedEntities
ERDPlaced ==
    /\ pc = "erd_placing"
    /\ Len(placedEntities) >= Len(sortedEntities)
    /\ pc' = "erd_placed"
    /\ UNCHANGED erdVars

\* renderERD after the layout: the boxes, the relationship lines between the
\* boxes that exist, the viewBox and the return
ERDDraw ==
    /\ pc = "erd_placed"
    /\ relationshipLines' = drawRelationships(relationships, 1,
                                              EntityRects(placedEntities), <<>>)
    /\ erdResult' = [success |-> TRUE, viewBox |-> ERDViewBox(placedEntities)]
    /\ pc' = "erd_done"
    /\ UNCHANGED <<entities, relationships, entitiesMap, sortedEntities, grid,
                   placedEntities>>

ERDNext ==
    \/ ERDShapeError /\ UNCHANGED <<callVars, flowVars, wrapVars, appVars, seqVars>>
    \/ ERDMeasure /\ UNCHANGED <<callVars, flowVars, wrapVars, appVars, seqVars>>
    \/ ERDSort /\ UNCHANGED <<svgContainer, callVars, flowVars, wrapVars, appVars, seqVars>>
    \/ ERDPlace /\ UNCHANGED <<svgContainer, callVars, flowVars, wrapVars, appVars, seqVars>>
    \/ ERDPlaced /\ UNCHANGED <<svgContainer, callVars, flowVars, wrapVars, appVars, seqVars>>
    \/ ERDDraw /\ UNCHANGED <<svgContainer, callVars, flowVars, wrapVars, appVars, seqVars>>

ERDSpec == ERDInit /\ [][ERDNext]_vars

\* --------------------------------------------------------------- ERD claims
\* the entities placed before the k-th that stand in the row of the (k-1)-th
RowBefore(k) == {i \in 1..(k - 1) : placedEntities[i].y = placedEntities[k - 1].y}

RECURSIVE SumOver(_, _)
SumOver(S, f) ==
    IF S = {} THEN 0
    ELSE LET i == CHOOSE j \in S : TRUE IN f[i] + SumOver(S \ {i}, f)

\* currentX as the claim defines it: the sum of (width + 80) over the row
RowCursor(k) ==
    SumOver(RowBefore(k),
            [i \in 1..Len(placedEntities) |-> placedEntities[i].calculatedWidth + 80])

RowTallest(k) == MaxOf({placedEntities[i].calculatedHeight : i \in RowBefore(k)})

\* C10: the entities are placed in name order, the first at (0,0); a later one
\* starts a row, at x = 0 and y = row y + tallest box of the row + 80, exactly
\* when the row cursor plus its width exceeds 800, and else stands at the cursor
C10_GridPack ==
    (pc = "erd_placed") =>
        /\ Len(placedEntities) = Len(entities)
        /\ {placedEntities[k].name : k \in 1..Len(placedEntities)}
              = {entities[i].name : i \in 1..Len(entities)}
        /\ \A k \in 1..(Len(placedEntities) - 1) :
              CollationRank(placedEntities[k].name)
                 <= CollationRank(placedEntities[k + 1].name)
        /\ \A k \in 1..Len(placedEntities) :
              LET e == placedEntities[k] IN
              /\ \E i \in 1..Len(entities) :
                    /\ entities[i].name = e.name
                    /\ e.calculatedWidth = entities[i].calculatedWidth
                    /\ e.calculatedHeight = entities[i].calculatedHeight
              /\ k = 1 => (e.x = 0 /\ e.y = 0)
              /\ (k > 1 /\ RowCursor(k) + e.calculatedWidth > 800) =>
                    /\ e.x = 0
                    /\ e.y = placedEntities[k - 1].y + RowTallest(k) + 80
              /\ (k > 1 /\ RowCursor(k) + e.calculatedWidth <= 800) =>
                    /\ e.x = RowCursor(k)
                    /\ e.y = placedEntities[k - 1].y

\* three entities given out of name order, the third wrapped below a row
\* whose boxes differ in height
C10_Witness ==
    /\ pc = "erd_placed"
    /\ Len(placedEntities) = 3
    /\ entities[1].name > entities[2].name
    /\ placedEntities[1].calculatedHeight > placedEntities[2].calculatedHeight
    /\ placedEntities[2].y = 0
    /\ placedEntities[3].x = 0
    /\ placedEntities[3].y = placedEntities[1].calculatedHeight + 80

\* three entities that fill the 800 budget exactly and share the row
C10_WitnessFullRow ==
    /\ pc = "erd_placed"
    /\ Len(placedEntities) = 3
    /\ placedEntities[3].x + placedEntities[3].calculatedWidth = 800
    /\ placedEntities[3].y = 0

\* the box drawn for the entity of that name
BoxOf(name) == EntityRects(placedEntities)[name]

\* the point lies on the outline of the rectangle
OnBoundary(pt, rect) ==
    /\ rect.x <= pt.x /\ pt.x <= rect.x + rect.width
    /\ rect.y <= pt.y /\ pt.y <= rect.y + rect.height
    /\ \/ pt.x = rect.x \/ pt.x = rect.x + rect.width
       \/ pt.y = rect.y \/ pt.y = rect.y + rect.height

\* the marker drawn for a line end: "many" is the crow's-foot fork, whose
\* marker id is oneToMany
MarkerOf(lineEnd) ==
    IF lineEnd = "zero-or-one" THEN "url(#zeroOrOne)"
    ELSE IF lineEnd = "zero-or-many" THEN "url(#zeroOrMany)"
    ELSE IF lineEnd = "many" THEN "url(#oneToMany)"
    ELSE "url(#one)"

\* C11: a relationship line carries, by its cardinality, the markers
\* 0..1 -> (zero-or-one, one), 1..1 -> (one, one), 1..* -> (many, one),
\* 0..* -> (zero-or-many, one), *..* -> (many, many), written (to-end,
\* from-end); the to-end marker is the marker-end and the from-end marker the
\* marker-start of the line, which runs from the 'from' box to the 'to' box
C11_CardinalityMarkers ==
    (pc = "erd_done") =>
        \A k \in 1..Len(relationshipLines) :
            LET l == relationshipLines[k]
                rel == relationships[l.rel]
                toEnd == IF rel.cardinality = "0..1" THEN "zero-or-one"
                         ELSE IF rel.cardinality = "1..1" THEN "one"
                         ELSE IF rel.cardinality = "1..*" THEN "many"
                         ELSE IF rel.cardinality = "0..*" THEN "zero-or-many"
                         ELSE "many"
                fromEnd == IF rel.cardinality = "*..*" THEN "many" ELSE "one"
            IN  /\ rel.cardinality \in Cardinalities
                /\ l.markerEnd = MarkerOf(toEnd)
                /\ l.markerStart = MarkerOf(fromEnd)
                /\ OnBoundary(l.start, BoxOf(rel.from))
                /\ OnBoundary(l.end, BoxOf(rel.to))

\* a drawn "1..*" line between two different boxes: the fork at its end only
C11_Witness ==
    /\ pc = "erd_done"
    /\ Len(relationshipLines) = 1
    /\ relationships[1].cardinality = "1..*"
    /\ relationships[1].from # relationships[1].to
    /\ relationshipLines[1].markerEnd = "url(#oneToMany)"
    /\ relationshipLines[1].markerStart = "url(#one)"
    /\ relationshipLines[1].start # relationshipLines[1].end

CenterX(rect) == rect.x + rect.width \div 2

CenterY(rect) == rect.y + rect.height \div 2

\* C18: with dx, dy the differences of the box centers (to minus from): when
\* |dx| > |dy| the line starts at the vertical midpoint of the from-box's
\* right edge if dx > 0 (left edge otherwise) and ends at the vertical
\* midpoint of the to-box's left edge if dx > 0 (right edge otherwise); when
\* |dx| <= |dy| it starts at the horizontal midpoint of the from-box's bottom
\* edge if dy > 0 (top edge otherwise) and ends at the horizontal midpoint of
\* the to-box's top edge if dy > 0 (bottom edge otherwise); both points lie
\* on the outline of their own box
C18_ConnectionPoints ==
    (pc = "erd_done") =>
        \A k \in 1..Len(relationshipLines) :
            LET l == relationshipLines[k]
                f == BoxOf(relationships[l.rel].from)
                t == BoxOf(relationships[l.rel].to)
                dx == CenterX(t) - CenterX(f)
                dy == CenterY(t) - CenterY(f)
            IN  /\ (Abs(dx) > Abs(dy) /\ dx > 0) =>
                      /\ l.start = [x |-> f.x + f.width, y |-> CenterY(f)]
                      /\ l.end = [x |-> t.x, y |-> CenterY(t)]
                /\ (Abs(dx) > Abs(dy) /\ dx <= 0) =>
                      /\ l.start = [x |-> f.x, y |-> CenterY(f)]
                      /\ l.end = [x |-> t.x + t.width, y |-> CenterY(t)]
                /\ (Abs(dx) <= Abs(dy) /\ dy > 0) =>
                      /\ l.start = [x |-> CenterX(f), y |-> f.y + f.height]
                      /\ l.end = [x |-> CenterX(t), y |-> t.y]
                /\ (Abs(dx) <= Abs(dy) /\ dy <= 0) =>
                      /\ l.start = [x |-> CenterX(f), y |-> f.y]
                      /\ l.end = [x |-> CenterX(t), y |-> t.y + t.height]
                /\ OnBoundary(l.start, f)
                /\ OnBoundary(l.end, t)

\* a line drawn leftwards between two boxes of one row: from the left edge of
\* the 'from' box to the right edge of the 'to' box
C18_Witness ==
    /\ pc = "erd_done"
    /\ Len(relationshipLines) = 1
    /\ LET f == BoxOf(relationships[1].from)
           t == BoxOf(relationships[1].to)
       IN  /\ f.y = t.y
           /\ t.x + t.width < f.x
           /\ f.height # t.height
           /\ relationshipLines[1].start = [x |-> f.x, y |-> CenterY(f)]
           /\ relationshipLines[1].end = [x |-> t.x + t.width, y |-> CenterY(t)]

\* a line drawn downwards from a box to the box of the next row below it
C18_WitnessVertical ==
    /\ pc = "erd_done"
    /\ Len(relationshipLines) = 1
    /\ LET f == BoxOf(relationships[1].from)
           t == BoxOf(relationships[1].to)
       IN  /\ f.y + f.height < t.y
           /\ relationshipLines[1].start = [x |-> CenterX(f), y |-> f.y + f.height]
           /\ relationshipLines[1].end = [x |-> CenterX(t), y |-> t.y]

\* ============================================================ flowchart.js
\* mutant: only the target of an edge is looked up
RECURSIVE buildGraphFromHalfChecked(_, _, _)
buildGraphFromHalfChecked(es, i, g) ==
    IF i > Len(es) THEN g
    ELSE LET e == es[i] IN
         IF Has(g.adj, e.to)
         THEN buildGraphFromHalfChecked(es, i + 1,
                [adj |-> IF Has(g.adj, e.from)
                         THEN [g.adj EXCEPT ![e.from] = Append(@, e.to)]
                         ELSE g.adj,
                 inDegree |-> [g.inDegree EXCEPT ![e.to] = @ + 1]])
         ELSE buildGraphFromHalfChecked(es, i + 1, g)

\* buildGraph: edges.forEach from index i on, over the graph g = [adj, inDegree]
RECURSIVE buildGraphFrom(_, _, _)
buildGraphFrom(es, i, g) ==
    IF i > Len(es) THEN g
    ELSE LET e == es[i] IN
         IF Has(g.adj, e.from) /\ Has(g.adj, e.to)
         THEN buildGraphFrom(es, i + 1,
                [adj |-> [g.adj EXCEPT ![e.from] = Append(@, e.to)],
                 inDegree |-> [g.inDegree EXCEPT ![e.to] = @ + 1]])
         ELSE buildGraphFrom(es, i + 1, g)

buildGraph(ns, es) ==
    buildGraphFrom(es, 1, [adj |-> [id \in Range(ns) |-> <<>>],
                           inDegree |-> [id \in Range(ns) |-> 0]])

\* layers.get(layer).push(v), creating the layer when the Map lacks it
PushToLayer(ls, layer, v) ==
    IF Has(ls, layer) THEN [ls EXCEPT ![layer] = Append(@, v)]
    ELSE ls @@ (layer :> <<v>>)

\* mutant: the node stays on the layer of the predecessor that released it
NextLayerOfSame(currentLayer) == currentLayer

\* the layer a node takes when its in-degree reaches zero
NextLayerOf(currentLayer) == currentLayer + 1

\* mutant: a node takes its layer from the first predecessor that reaches it
RECURSIVE visitNeighboursEager(_, _, _, _)
visitNeighboursEager(succs, i, currentLayer, st) ==
    IF i > Len(succs) THEN st
    ELSE LET v == succs[i]
             deg == st.inDegree[v] - 1
             st1 == [st EXCEPT !.inDegree[v] = deg]
         IN  IF ~Has(st.nodeLayers, v)
             THEN visitNeighboursEager(succs, i + 1, currentLayer,
                    [st1 EXCEPT !.q = Append(@, v),
                                !.nodeLayers = MapSet(@, v, NextLayerOf(currentLayer)),
                                !.layers = PushToLayer(@, NextLayerOf(currentLayer), v)])
             ELSE visitNeighboursEager(succs, i + 1, currentLayer, st1)

\* assignLayers, the inner loop "for (const v of adj.get(u))" from index i on;
\* st = [inDegree, q, nodeLayers, layers]
RECURSIVE visitNeighbours(_, _, _, _)
visitNeighbours(succs, i, currentLayer, st) ==
    IF i > Len(succs) THEN st
    ELSE LET v == succs[i]
             deg == st.inDegree[v] - 1
             st1 == [st EXCEPT !.inDegree[v] = deg]
         IN  IF deg = 0
             THEN visitNeighbours(succs, i + 1, currentLayer,
                    [st1 EXCEPT !.q = Append(@, v),
                                !.nodeLayers = MapSet(@, v, NextLayerOf(currentLayer)),
                                !.layers = PushToLayer(@, NextLayerOf(currentLayer), v)])
             ELSE visitNeighbours(succs, i + 1, currentLayer, st1)

\* mutant: the unreached node joins the highest existing layer
TargetLayerJoinsLast(ls) ==
    IF DOMAIN ls # {} THEN MaxOf(DOMAIN ls) ELSE 0

\* mutant: the default of an empty layer Map is one too low
TargetLayerLowDefault(ls) ==
    LET maxExistingLayer == IF DOMAIN ls # {} THEN MaxOf(DOMAIN ls) ELSE -2
    IN  maxExistingLayer + 1

\* the layer a node the forward pass never reached is put in
TargetLayer(ls) ==
    LET maxExistingLayer == IF DOMAIN ls # {} THEN MaxOf(DOMAIN ls) ELSE -1
    IN  maxExistingLayer + 1

\* assignLayers, "nodesMap.forEach" over the not yet assigned nodes, from index i
\* on; st = [nodeLayers, layers]
RECURSIVE placeLeftovers(_, _, _)
placeLeftovers(ns, i, st) ==
    IF i > Len(ns) THEN st
    ELSE IF ~Has(st.nodeLayers, ns[i])
         THEN LET targetLayer == TargetLayer(st.layers)
              IN  placeLeftovers(ns, i + 1,
                     [nodeLayers |-> MapSet(st.nodeLayers, ns[i], targetLayer),
                      layers |-> PushToLayer(st.layers, targetLayer, ns[i])])
         ELSE placeLeftovers(ns, i + 1, st)

\* Array.from(layers.keys()).sort((a, b) => a - b)
RECURSIVE SortedKeys(_)
SortedKeys(S) ==
    IF S = {} THEN <<>> ELSE <<MinOf(S)>> \o SortedKeys(S \ {MinOf(S)})

\* mutant: every layer starts at x = 0
LayerXFromZero(numNodes, i) == i * (NODE_WIDTH + H_GAP)

\* mutant: the layer is laid out right to left
LayerXMirrored(numNodes, i) ==
    LET totalWidth == numNodes * NODE_WIDTH + (numNodes - 1) * H_GAP
        startX == -(totalWidth \div 2) + NODE_WIDTH \div 2
    IN  startX + (numNodes - 1 - i) * (NODE_WIDTH + H_GAP)

\* x of the i-th (0-based) node of a layer of numNodes nodes
LayerX(numNodes, i) ==
    LET totalWidth == numNodes * NODE_WIDTH + (numNodes - 1) * H_GAP
        startX == -(totalWidth \div 2) + NODE_WIDTH \div 2
    IN  startX + i * (NODE_WIDTH + H_GAP)

\* positionNodes, the loop over sortedLayerKeys from index k on;
\* st = [nodesMap, positionedNodes]; layerY is the value of the local currentY,
\* which grows by NODE_HEIGHT + V_GAP per layer key
RECURSIVE positionFrom(_, _, _, _)
positionFrom(keys, k, ls, st) ==
    IF k > Len(keys) THEN st
    ELSE LET nodeIdsInLayer == ls[keys[k]]
             numNodes == Len(nodeIdsInLayer)
             layerY == (k - 1) * (NODE_HEIGHT + V_GAP)
             placed == [id \in DOMAIN st.nodesMap |->
                          IF id \in Range(nodeIdsInLayer)
                          THEN [x |-> LayerX(numNodes, IndexOf(nodeIdsInLayer, id) - 1),
                                y |-> layerY]
                          ELSE st.nodesMap[id]]
         IN  positionFrom(keys, k + 1, ls,
                [nodesMap |-> placed,
                 positionedNodes |-> st.positionedNodes \o nodeIdsInLayer])

positionNodes(ls, nm) ==
    positionFrom(SortedKeys(DOMAIN ls), 1, ls,
                 [nodesMap |-> nm, positionedNodes |-> <<>>])

\* ---- the call renderFlowchart(data, svgContainer), step by step
NodeLists == {[i \in 1..n |-> i] : n \in 0..MaxNodes}

EdgeRecs == [from : 1..MaxNodes, to : 1..MaxNodes]

\* mutant: the horizontal segment lies a whole V_GAP below the source
elbowPathFullGap(fromNode, toNode) ==
    LET x1 == fromNode.x + NODE_WIDTH \div 2
        y1 == fromNode.y + NODE_HEIGHT
        x2 == toNode.x + NODE_WIDTH \div 2
        y2 == toNode.y
    IN  [points |-> << <<x1, y1>>, <<x1, y1 + V_GAP>>,
                      <<x2, y1 + V_GAP>>, <<x2, y2>> >>,
         labelX |-> (x1 + x2) \div 2,
         labelY |-> y1 + V_GAP + 5]

\* the path of an edge, M x1,y1 L x1,y1+V_GAP/2 L x2,y1+V_GAP/2 L x2,y2, and
\* the point (labelX, labelY) its label, when it has one, is anchored at by
\* its middle
elbowPath(fromNode, toNode) ==
    LET x1 == fromNode.x + NODE_WIDTH \div 2
        y1 == fromNode.y + NODE_HEIGHT
        x2 == toNode.x + NODE_WIDTH \div 2
        y2 == toNode.y
    IN  [points |-> << <<x1, y1>>, <<x1, y1 + V_GAP \div 2>>,
                      <<x2, y1 + V_GAP \div 2>>, <<x2, y2>> >>,
         labelX |-> (x1 + x2) \div 2,
         labelY |-> y1 + V_GAP \div 2 + 5]

\* "data.edges.forEach" of renderFlowchart from index i on: an edge whose two
\* nodes are found among the positioned ones gets its path, the others are
\* skipped
RECURSIVE drawEdges(_, _, _, _, _)
drawEdges(es, i, positioned, nm, paths) ==
    IF i > Len(es) THEN paths
    ELSE LET edge == es[i] IN
         IF ~(edge.from \in Range(positioned) /\ edge.to \in Range(positioned))
         THEN drawEdges(es, i + 1, positioned, nm, paths)
         ELSE LET path == elbowPath(nm[edge.from], nm[edge.to])
              IN  drawEdges(es, i + 1, positioned, nm,
                     Append(paths,
                        [edge |-> i, points |-> path.points,
                         labelX |-> path.labelX, labelY |-> path.labelY]))

\* the viewBox of renderFlowchart, from the boxes drawn
FlowViewBox(positioned, nm) ==
    LET ids == Range(positioned)
        maxX == MaxOf({0} \cup {nm[id].x + NODE_WIDTH : id \in ids})
        maxY == MaxOf({0} \cup {nm[id].y + NODE_HEIGHT : id \in ids})
        finalWidth == Fin(maxX + padding)
        finalHeight == Fin(maxY + padding)
        initialX == NumPlus(MathMin({nm[id].x : id \in ids}), Fin(0 - padding \div 2))
        initialY == NumPlus(MathMin({nm[id].y : id \in ids}), Fin(0 - padding \div 2))
    IN  <<initialX, initialY,
          NumPlus(NumPlus(finalWidth, NumNeg(initialX)), Fin(padding \div 2)),
          NumPlus(NumPlus(finalHeight, NumNeg(initialY)), Fin(padding \div 2))>>

\* the state of a renderFlowchart call at its start
FlowStart == pc = "flow_start" /\ FlowCleared

FlowInit ==
    /\ WrapIdle
    /\ SeqIdle
    /\ ERDIdle
    /\ AppIdle
    /\ absent \in {{}} \cup AbsentSets("flowchart")
    /\ IF absent = {}
       THEN /\ nodes \in NodeLists
            /\ edges \in SeqsUpTo(EdgeRecs, MaxEdges)
       ELSE nodes = <<>> /\ edges = <<>>
    /\ givenData = [nodes |-> nodes, edges |-> edges]
    /\ FlowStart
    /\ SingleCall("flowchart")

\* mutant: the container is cleared before the shape is checked
FlowShapeErrorAfterClear ==
    /\ pc = "flow_start"
    /\ ShapeError("flowchart")
    /\ svgContainer' = "defs and drawing"
    /\ flowResult' = [success |-> FALSE,
                      error |-> "Invalid flowchart data: missing nodes or edges"]
    /\ pc' = "flow_failed"
    /\ UNCHANGED <<nodes, edges, adj, inDegree, q, head, layers,
                   nodeLayers, nodesMap, positionedNodes, edgePaths>>

\* renderFlowchart, the check of the data's shape: it returns before it
\* touches the container
FlowShapeError ==
    /\ pc = "flow_start"
    /\ ShapeError("flowchart")
    /\ flowResult' = [success |-> FALSE,
                      error |-> "Invalid flowchart data: missing nodes or edges"]
    /\ pc' = "flow_failed"
    /\ UNCHANGED <<svgContainer, nodes, edges, adj, inDegree, q, head, layers,
                   nodeLayers, nodesMap, positionedNodes, edgePaths>>

\* nodesMap = new Map(...); graph = buildGraph(data.nodes, data.edges, nodesMap)
FlowBuildGraph ==
    /\ pc = "flow_start"
    /\ ~ShapeError("flowchart")
    /\ svgContainer' = "defs and drawing"
    /\ nodesMap' = [id \in Range(nodes) |-> [x |-> 0, y |-> 0]]
    /\ adj' = buildGraph(nodes, edges).adj
    /\ inDegree' = buildGraph(nodes, edges).inDegree
    /\ pc' = "flow_seed"
    /\ UNCHANGED <<nodes, edges, q, head, layers, nodeLayers, positionedNodes,
                   edgePaths, flowResult>>

\* assignLayers: "for (const [nodeId, degree] of inDegree.entries())"
FlowSeedQueue ==
    /\ pc = "flow_seed"
    /\ LET sources == FilterSeq(nodes, {id \in Range(nodes) : inDegree[id] = 0})
       IN  /\ q' = sources
           /\ nodeLayers' = [id \in Range(sources) |-> 0]
           /\ layers' = IF sources = <<>> THEN EmptyMap ELSE (0 :> sources)
    /\ head' = 0
    /\ pc' = "flow_bfs"
    /\ UNCHANGED <<nodes, edges, adj, inDegree, nodesMap, positionedNodes,
                   edgePaths, flowResult>>

\* assignLayers: one iteration of "while (head < q.length)"
FlowDequeue ==
    /\ pc = "flow_bfs"
    /\ head < Len(q)
    /\ LET u == q[head + 1]
           st == visitNeighbours(adj[u], 1, nodeLayers[u],
                    [inDegree |-> inDegree, q |-> q,
                     nodeLayers |-> nodeLayers, layers |-> layers])
       IN  /\ inDegree' = st.inDegree
           /\ q' = st.q
           /\ nodeLayers' = st.nodeLayers
           /\ layers' = st.layers
    /\ head' = head + 1
    /\ UNCHANGED <<pc, nodes, edges, adj, nodesMap, positionedNodes,
                   edgePaths, flowResult>>

\* assignLayers: the queue is exhausted; "nodesMap.forEach" places the rest
FlowLeftovers ==
    /\ pc = "flow_bfs"
    /\ head >= Len(q)
    /\ LET st == placeLeftovers(nodes, 1,
                    [nodeLayers |-> nodeLayers, layers |-> layers])
       IN  /\ nodeLayers' = st.nodeLayers
           /\ layers' = st.layers
    /\ pc' = "flow_layered"
    /\ UNCHANGED <<nodes, edges, adj, inDegree, q, head, nodesMap, positionedNodes,
                   edgePaths, flowResult>>

\* positionedNodes = positionNodes(layers, nodesMap)
FlowPosition ==
    /\ pc = "flow_layered"
    /\ LET st == positionNodes(layers, nodesMap)
       IN  /\ nodesMap' = st.nodesMap
           /\ positionedNodes' = st.positionedNodes
    /\ pc' = "flow_positioned"
    /\ UNCHANGED <<nodes, edges, adj, inDegree, q, head, layers, nodeLayers,
                   edgePaths, flowResult>>

\* renderFlowchart after the layout: the boxes, the edge paths between the
\* nodes that exist, the viewBox and the return
FlowDraw ==
    /\ pc = "flow_positioned"
    /\ edgePaths' = drawEdges(edges, 1, positionedNodes, nodesMap, <<>>)
    /\ flowResult' = [success |-> TRUE,
                      viewBox |-> FlowViewBox(positionedNodes, nodesMap)]
    /\ pc' = "flow_done"
    /\ UNCHANGED <<nodes, edges, adj, inDegree, q, head, layers, nodeLayers,
                   nodesMap, positionedNodes>>

FlowNext ==
    \/ FlowShapeError /\ UNCHANGED <<callVars, wrapVars, appVars, seqVars, erdVars>>
    \/ FlowBuildGraph /\ UNCHANGED <<callVars, wrapVars, appVars, seqVars, erdVars>>
    \/ FlowSeedQueue /\ UNCHANGED <<svgContainer, callVars, wrapVars, appVars, seqVars, erdVars>>
    \/ FlowDequeue /\ UNCHANGED <<svgContainer, callVars, wrapVars, appVars, seqVars, erdVars>>
    \/ FlowLeftovers /\ UNCHANGED <<svgContainer, callVars, wrapVars, appVars, seqVars, erdVars>>
    \/ FlowPosition /\ UNCHANGED <<svgContainer, callVars, wrapVars, appVars, seqVars, erdVars>>
    \/ FlowDraw /\ UNCHANGED <<svgContainer, callVars, wrapVars, appVars, seqVars, erdVars>>

FlowSpec == FlowInit /\ [][FlowNext]_vars

\* ------------------------------------------------ flowchart: graph notions
\* the edges whose two endpoints are nodes (the others are skipped by buildGraph)
ValidEdgeIdx == {i \in 1..Len(edges) : edges[i].from \in Range(nodes)
                                       /\ edges[i].to \in Range(nodes)}

Succs(S) == {edges[i].to : i \in {j \in ValidEdgeIdx : edges[j].from \in S}}

RECURSIVE ReachWithin(_, _)
ReachWithin(S, k) ==
    IF k = 0 THEN S ELSE ReachWithin(S \cup Succs(S), k - 1)

\* the nodes reachable from u along one or more valid edges
Descendants(u) == ReachWithin(Succs({u}), Len(nodes))

Acyclic == \A u \in Range(nodes) : u \notin Descendants(u)

\* in-degree of a node in the input graph
GraphInDegree(id) == Cardinality({i \in ValidEdgeIdx : edges[i].to = id})

Layered == pc \in {"flow_layered", "flow_positioned"}

\* the input passes validate(): every edge joins two distinct existing nodes
ValidatedFlow ==
    \A i \in 1..Len(edges) :
        i \in ValidEdgeIdx /\ edges[i].from # edges[i].to

\* the nodes the forward pass dequeued, and the rest
ForwardNodes == Range(q)

LeftoverNodes == Range(nodes) \ Range(q)

\* C1: in an acyclic graph every edge (u -> v) has layer(u) < layer(v)
C1_EdgesPointDown ==
    (Layered /\ Acyclic) =>
        \A i \in ValidEdgeIdx :
            nodeLayers[edges[i].from] < nodeLayers[edges[i].to]

\* an acyclic graph with two sources and a node whose predecessors lie on
\* different layers
C1_Witness ==
    /\ Layered /\ Acyclic
    /\ \E i, j \in ValidEdgeIdx :
          /\ edges[i].to = edges[j].to
          /\ nodeLayers[edges[i].from] # nodeLayers[edges[j].from]
    /\ Len(layers[0]) >= 1

\* a graph with a duplicated edge, layered
C1_WitnessDuplicate ==
    /\ Layered /\ Acyclic
    /\ \E i, j \in ValidEdgeIdx : i # j /\ edges[i] = edges[j]
    /\ Cardinality({id \in Range(nodes) : GraphInDegree(id) = 0}) >= 2

C3_OneTrailingLayer ==
    (Layered /\ ValidatedFlow /\ ForwardNodes # {}) =>
        \A n \in LeftoverNodes :
            nodeLayers[n] = MaxOf({nodeLayers[m] : m \in ForwardNodes}) + 1

\* the nodes of in-degree zero in the input graph
Sources == {id \in Range(nodes) : GraphInDegree(id) = 0}

\* every node is in exactly one layer list, once, and nodeLayers agrees
OneLayerEach ==
    /\ DOMAIN nodeLayers = Range(nodes)
    /\ \A id \in Range(nodes) :
          /\ nodeLayers[id] \in Nat
          /\ {l \in DOMAIN layers : id \in Range(layers[l])} = {nodeLayers[id]}
          /\ Cardinality({i \in 1..Len(layers[nodeLayers[id]]) :
                             layers[nodeLayers[id]][i] = id}) = 1

\* C4 as stated: one non-negative layer per node, and layer 0 holds only
\* nodes of in-degree zero, whatever the graph (here: any validated graph)
C4_LayerZeroOnlySources ==
    (Layered /\ ValidatedFlow) =>
        /\ OneLayerEach
        /\ \A id \in Range(nodes) : nodeLayers[id] = 0 => id \in Sources

\* C4 amended: one non-negative layer per node; layer 0 holds only nodes of
\* in-degree zero when the graph has such a node, and holds the first node of
\* the input list when it has none
C4_LayerZeroAmended ==
    Layered =>
        /\ OneLayerEach
        /\ Sources # {} =>
              \A id \in Range(nodes) : nodeLayers[id] = 0 => id \in Sources
        /\ (Sources = {} /\ nodes # <<>>) => nodeLayers[nodes[1]] = 0

\* both cases of the amended claim: a graph without any source, layered
C4_Witness ==
    /\ Layered
    /\ Sources = {}
    /\ Len(nodes) >= 2
    /\ nodeLayers[nodes[1]] = 0

Positioned == pc = "flow_positioned"

SameLayer(a, b) == a # b /\ nodeLayers[a] = nodeLayers[b]

Drawn == pc = "flow_done" /\ flowResult.success

\* the top-left corner of the node's box
NodeX(id) == nodesMap[id].x

NodeY(id) == nodesMap[id].y

\* the path is the elbow from the bottom-center of u to the top-center of v:
\* down V_GAP/2, across to the x of v's center, then vertically to v's top
IsElbow(p, u, v) ==
    /\ Len(p.points) = 4
    /\ p.points[1] = <<NodeX(u) + NODE_WIDTH \div 2, NodeY(u) + NODE_HEIGHT>>
    /\ p.points[2] = <<p.points[1][1], p.points[1][2] + V_GAP \div 2>>
    /\ p.points[3] = <<NodeX(v) + NODE_WIDTH \div 2, p.points[2][2]>>
    /\ p.points[4] = <<p.points[3][1], NodeY(v)>>

\* the label is centered on the horizontal segment
LabelCentered(p) == 2 * p.labelX = p.points[2][1] + p.points[3][1]

\* the last segment runs downward: v's top is not above the horizontal segment
LastSegmentDown(p) == p.points[4][2] >= p.points[3][2]

\* C20 as stated: every drawn edge, in cyclic and in acyclic graphs alike, is
\* the elbow path from u's bottom-center to v's top-center whose last segment
\* runs downward, with the label centered on the horizontal segment
C20_ElbowDown ==
    (Drawn /\ ValidatedFlow) =>
        \A k \in 1..Len(edgePaths) :
            LET p == edgePaths[k] IN
            /\ IsElbow(p, edges[p.edge].from, edges[p.edge].to)
            /\ LastSegmentDown(p)
            /\ LabelCentered(p)

\* C20 amended: every drawn edge is the elbow path and its label is centered
\* on the horizontal segment; the last segment runs downward exactly when v
\* lies on a deeper layer than u, which every edge of an acyclic graph does;
\* an edge back to the same or a higher layer ends in a segment running upward
C20_ElbowAmended ==
    Drawn =>
        /\ Len(edgePaths) = Cardinality(ValidEdgeIdx)
        /\ \A k \in 1..Len(edgePaths) :
              LET p == edgePaths[k]
                  u == edges[p.edge].from
                  v == edges[p.edge].to
              IN  /\ p.edge \in ValidEdgeIdx
                  /\ IsElbow(p, u, v)
                  /\ LabelCentered(p)
                  /\ LastSegmentDown(p) <=> nodeLayers[u] < nodeLayers[v]
                  /\ Acyclic => LastSegmentDown(p)

\* a validated cyclic graph drawn with one edge ending downward and one edge
\* ending upward
C20_Witness ==
    /\ Drawn
    /\ ValidatedFlow
    /\ ~Acyclic
    /\ \E k \in 1..Len(edgePaths) : LastSegmentDown(edgePaths[k])
    /\ \E k \in 1..Len(edgePaths) : ~LastSegmentDown(edgePaths[k])

\* an acyclic graph drawn with an edge whose horizontal segment has a length
C20_WitnessAcyclic ==
    /\ Drawn
    /\ ValidatedFlow
    /\ Acyclic
    /\ \E k \in 1..Len(edgePaths) :
          edgePaths[k].points[2][1] # edgePaths[k].points[3][1]

\* ------------------------------------ flowchart: the call as one function
\* assignLayers, "while (head < q.length)" from the given head on;
\* st = [inDegree, q, nodeLayers, layers]
RECURSIVE whileQueue(_, _, _)
whileQueue(adjacency, h, st) ==
    IF h >= Len(st.q) THEN st
    ELSE LET u == st.q[h + 1]
         IN  whileQueue(adjacency, h + 1,
                visitNeighbours(adjacency[u], 1, st.nodeLayers[u], st))

\* assignLayers(graph, nodesMap): the seeding, the queue pass, the leftovers
assignLayers(ns, graph) ==
    LET sources == FilterSeq(ns, {id \in Range(ns) : graph.inDegree[id] = 0})
        passed == whileQueue(graph.adj, 0,
                     [inDegree |-> graph.inDegree, q |-> sources,
                      nodeLayers |-> [id \in Range(sources) |-> 0],
                      layers |-> IF sources = <<>> THEN EmptyMap
                                 ELSE (0 :> sources)])
    IN  placeLeftovers(ns, 1, [nodeLayers |-> passed.nodeLayers,
                               layers |-> passed.layers])

\* what renderFlowchart draws and returns for the nodes ns and the edges es
layoutFlowchart(ns, es) ==
    LET layered == assignLayers(ns, buildGraph(ns, es))
        positioned == positionNodes(layered.layers,
                                    [id \in Range(ns) |-> [x |-> 0, y |-> 0]])
        paths == drawEdges(es, 1, positioned.positionedNodes,
                           positioned.nodesMap, <<>>)
    IN  [nodeLayers |-> layered.nodeLayers,
         layers |-> layered.layers,
         nodesMap |-> positioned.nodesMap,
         pathPoints |-> [k \in 1..Len(paths) |-> paths[k].points],
         viewBox |-> FlowViewBox(positioned.positionedNodes, positioned.nodesMap)]

\* the edges that name a node the list lacks, and the list without them
DanglingIdx == (1..Len(edges)) \ ValidEdgeIdx

WithoutDangling ==
    SelectSeq(edges, LAMBDA e : e.from \in Range(nodes) /\ e.to \in Range(nodes))

\* C14: an edge with a missing endpoint gets no path and does not abort the
\* layout: the call returns success, and the layers and positions of all nodes
\* and the paths of the other edges are those of the same input without the
\* edge (so of the input without any such edge)
C14_DanglingEdgeOmitted ==
    /\ pc = "flow_done" => flowResult.success
    /\ (Drawn /\ DanglingIdx # {}) =>
          LET same == layoutFlowchart(nodes, WithoutDangling)
          IN  /\ \A k \in 1..Len(edgePaths) : edgePaths[k].edge \notin DanglingIdx
              /\ nodeLayers = same.nodeLayers
              /\ layers = same.layers
              /\ nodesMap = same.nodesMap
              /\ [k \in 1..Len(edgePaths) |-> edgePaths[k].points] = same.pathPoints
              /\ flowResult.viewBox = same.viewBox

\* a call that drew the two edges between existing nodes and skipped the edge
\* in between them that starts at a missing node
C14_Witness ==
    /\ Drawn
    /\ Len(edges) = 3
    /\ DanglingIdx = {2}
    /\ edges[2].from \notin Range(nodes)
    /\ edges[2].to \in Range(nodes)
    /\ Len(edgePaths) = 2
    /\ edgePaths[2].edge = 3

\* ========================================================== core/compile.js
\* compileAndRender(jsonData), called a second time on the same object once
\* the first call has returned. The inputs are small ones of every type:
\* nodes 1..n with a few edges, participants 1..n with a few messages,
\* entities 1..n in name order with at most one relationship.
RenderNodeLists == {[i \in 1..n |-> i] : n \in 0..MaxRenderItems}

RenderEdgeRecs == [from : 1..MaxRenderItems, to : 1..MaxRenderItems]

RenderParticipantLists == {[i \in 1..n |-> i] : n \in 0..(MaxRenderItems - 1)}

RenderMessageTexts == { <<"2", "0", "0", " ", "O", "K">>,
                        <<"G", "E", "T", " ", "/", "i", "t", "e", "m", "s">> }

RenderMessageRecs == [from : 1..(MaxRenderItems - 1), to : 1..(MaxRenderItems - 1),
                      text : RenderMessageTexts]

RenderEntityLists ==
    {es \in SeqsUpTo([name : 1..MaxRenderItems, textWidth : TextWidths,
                      attrCount : AttributeCounts,
                      calculatedWidth : {Undefined},
                      calculatedHeight : {Undefined}], MaxRenderItems) :
        \A i \in 1..Len(es) : es[i].name = i}

RenderRelationshipLists ==
    {<<>>} \cup {<<r>> : r \in [from : 1..MaxRenderItems, to : 1..MaxRenderItems,
                               cardinality : {"1..*", "*..*"}]}

RenderInit ==
    /\ pc = "compile_start"
    /\ jsonType \in DiagramTypes \cup {"other"}
    /\ absent \in {{}} \cup AbsentSets(jsonType)
    /\ IF jsonType = "flowchart" /\ absent = {}
       THEN /\ nodes \in RenderNodeLists
            /\ edges \in SeqsUpTo(RenderEdgeRecs, MaxRenderItems - 1)
       ELSE nodes = <<>> /\ edges = <<>>
    /\ IF jsonType = "sequence" /\ absent = {}
       THEN /\ participants \in RenderParticipantLists
            /\ messages \in SeqsUpTo(RenderMessageRecs, MaxRenderItems - 1)
       ELSE participants = <<>> /\ messages = <<>>
    /\ IF jsonType = "erd" /\ absent = {}
       THEN /\ entities \in RenderEntityLists
            /\ relationships \in RenderRelationshipLists
       ELSE entities = <<>> /\ relationships = <<>>
    /\ givenData = [nodes |-> nodes, edges |-> edges,
                    participants |-> participants, messages |-> messages,
                    entities |-> entities, relationships |-> relationships]
    /\ svgContainer = "previous content"
    /\ callNo = 1
    /\ firstOutcome = <<>>
    /\ compileResult = "none"
    /\ FlowCleared
    /\ SeqCleared
    /\ ERDCleared
    /\ WrapIdle
    /\ AppIdle

\* the pc a renderer starts at, and the pcs at which a call is over
StartOf(type) ==
    IF type = "flowchart" THEN "flow_start"
    ELSE IF type = "sequence" THEN "seq_start" ELSE "erd_start"

Returned == pc \in {"flow_done", "seq_done", "erd_done"}

Failed == pc \in {"flow_failed", "seq_failed", "erd_failed", "compile_failed"}

Threw == pc = "seq_threw"

\* "switch (jsonData.type)": one of the three renderers is called with a new
\* temporary container
RenderDispatch ==
    /\ pc = "compile_start"
    /\ jsonType \in DiagramTypes
    /\ pc' = StartOf(jsonType)
    /\ UNCHANGED <<svgContainer, callVars, flowVars, wrapVars, appVars, seqVars, erdVars>>

\* the default case of the switch
RenderUnknownType ==
    /\ pc = "compile_start"
    /\ jsonType \notin DiagramTypes
    /\ compileResult' = [success |-> FALSE,
                         error |-> "Unknown diagram type: other"]
    /\ pc' = "compile_failed"
    /\ UNCHANGED <<svgContainer, jsonType, absent, givenData, callNo, firstOutcome,
                   flowVars, wrapVars, appVars, seqVars, erdVars>>

\* what a call drew and returned
Outcome ==
    IF jsonType = "flowchart"
    THEN [result |-> flowResult, layers |-> layers, nodesMap |-> nodesMap,
          edgePaths |-> edgePaths]
    ELSE IF jsonType = "sequence"
    THEN [result |-> seqResult, participantX |-> participantX, drawn |-> drawn,
          lifelineY2 |-> lifelineY2]
    ELSE IF jsonType = "erd"
    THEN [result |-> erdResult, placedEntities |-> placedEntities,
          relationshipLines |-> relationshipLines]
    ELSE [result |-> compileResult]

\* the caller passes the same object again: the collections are as the first
\* call left them, every local and the container are new
RenderAgain ==
    /\ callNo = 1
    /\ Returned \/ Failed \/ Threw
    /\ firstOutcome' = Outcome
    /\ callNo' = 2
    /\ pc' = "compile_start"
    /\ svgContainer' = "previous content"
    /\ compileResult' = "none"
    /\ adj' = EmptyMap
    /\ inDegree' = EmptyMap
    /\ q' = <<>>
    /\ head' = 0
    /\ layers' = EmptyMap
    /\ nodeLayers' = EmptyMap
    /\ nodesMap' = EmptyMap
    /\ positionedNodes' = <<>>
    /\ edgePaths' = <<>>
    /\ flowResult' = "none"
    /\ participantX' = EmptyMap
    /\ msgIdx' = 0
    /\ currentY' = 0
    /\ maxMessageY' = 0
    /\ drawn' = <<>>
    /\ lifelineY2' = 0
    /\ seqResult' = "none"
    /\ entitiesMap' = <<>>
    /\ sortedEntities' = <<>>
    /\ grid' = [currentX |-> 0, currentY |-> 0, rowMaxHeight |-> 0]
    /\ placedEntities' = <<>>
    /\ relationshipLines' = <<>>
    /\ erdResult' = "none"
    /\ UNCHANGED <<jsonType, absent, givenData, nodes, edges, participants,
                   messages, entities, relationships, wrapVars, appVars>>

RenderNext ==
    \/ RenderDispatch
    \/ RenderUnknownType
    \/ RenderAgain
    \/ FlowNext
    \/ SeqNext
    \/ ERDNext

RenderSpec == RenderInit /\ [][RenderNext]_vars

\* ------------------------------------------------ claims about every layout
\* the collections of the caller's object as they are now
InputNow ==
    [nodes |-> nodes, edges |-> edges,
     participants |-> participants, messages |-> messages,
     entities |-> entities, relationships |-> relationships]

\* C12: for each of the three layouts a second call on the same input object
\* yields the positions, sizes, connector points, markers and viewBox of the
\* first call, whatever the first call wrote
C12_Idempotent ==
    (callNo = 2 /\ (Returned \/ Failed \/ Threw)) => Outcome = firstOutcome

\* a second renderERD call has returned on entities that carry the sizes the
\* first call wrote into them, with a relationship line drawn
C12_Witness ==
    /\ callNo = 2
    /\ pc = "erd_done"
    /\ Len(entities) >= 2
    /\ entities # givenData.entities
    /\ Len(relationshipLines) = 1
    /\ firstOutcome.placedEntities = placedEntities

\* second calls of the other two layouts that drew a connector
C12_WitnessFlowchart ==
    callNo = 2 /\ pc = "flow_done" /\ Len(edgePaths) >= 1

C12_WitnessSequence ==
    callNo = 2 /\ pc = "seq_done" /\ Len(drawn) >= 1

\* what the renderer of the type returned
ResultOf(type) ==
    IF type = "flowchart" THEN flowResult
    ELSE IF type = "sequence" THEN seqResult
    ELSE IF type = "erd" THEN erdResult
    ELSE compileResult

\* the returned viewBox as four numbers that may be infinite
ViewBoxOf(type) ==
    IF type = "sequence"
    THEN [k \in 1..4 |-> Fin(seqResult.viewBox[k])]
    ELSE ResultOf(type).viewBox

\* the primary collection and the connector list are both empty
EmptyInput ==
    /\ absent = {}
    /\ nodes = <<>> /\ edges = <<>>
    /\ participants = <<>> /\ messages = <<>>
    /\ entities = <<>> /\ relationships = <<>>

\* C15: a call on an empty primary collection with an empty connector list
\* returns success with a well-formed viewBox: four finite numbers, the width
\* and the height positive
C15_EmptyInputViewport ==
    (jsonType \in DiagramTypes /\ EmptyInput /\ (Returned \/ Failed \/ Threw)) =>
        /\ Returned
        /\ ResultOf(jsonType).success
        /\ \A k \in 1..4 : IsFinite(ViewBoxOf(jsonType)[k])
        /\ ViewBoxOf(jsonType)[3].n > 0
        /\ ViewBoxOf(jsonType)[4].n > 0

\* C16: when a required collection is absent, or the type is unknown, the
\* call does not raise and returns success = false with one error message,
\* and the container passed in keeps its content
C16_ShapeErrors ==
    /\ (jsonType \notin DiagramTypes /\ pc # "compile_start") =>
          /\ pc = "compile_failed"
          /\ compileResult = [success |-> FALSE,
                              error |-> "Unknown diagram type: other"]
          /\ svgContainer = "previous content"
    /\ (ShapeError(jsonType) /\ pc # "compile_start" /\ pc # StartOf(jsonType)) =>
          /\ Failed
          /\ DOMAIN ResultOf(jsonType) = {"success", "error"}
          /\ ~ResultOf(jsonType).success
          /\ ResultOf(jsonType).error \in
                {"Invalid flowchart data: missing nodes or edges",
                 "Invalid sequence data: missing participants or messages",
                 "Invalid ERD data: missing entities or relationships"}
          /\ svgContainer = "previous content"
    /\ Failed => (ShapeError(jsonType) \/ jsonType \notin DiagramTypes)

\* renderFlowchart has returned on data without edges
C16_Witness ==
    /\ pc = "flow_failed"
    /\ absent = {"edges"}
    /\ ~flowResult.success
    /\ svgContainer = "previous content"

\* the other failures: an unknown type, a sequence without participants, an
\* ERD without both collections
C16_WitnessUnknownType ==
    pc = "compile_failed" /\ ~compileResult.success

C16_WitnessSequence ==
    pc = "seq_failed" /\ absent = {"participants"}

C16_WitnessERD ==
    pc = "erd_failed" /\ absent = {"entities", "relationships"}

\* C17: a layout call leaves the caller's input object as it was: every size
\* and position it computes lives in records created during the call
C17_InputReadOnly == InputNow = givenData

\* ------------------------------------------------------------ C19 viewport
\* the point lies inside the viewBox with a margin on every side
StrictlyInside(x, y, vb) ==
    /\ \A k \in 1..4 : IsFinite(vb[k])
    /\ vb[1].n < x /\ x < vb[1].n + vb[3].n
    /\ vb[2].n < y /\ y < vb[2].n + vb[4].n

BoxInside(x, y, width, height, vb) ==
    StrictlyInside(x, y, vb) /\ StrictlyInside(x + width, y + height, vb)

\* C19: with at least one node, participant or entity, the returned viewBox
\* contains, with a positive margin on all four sides, every box drawn and
\* every point of every connector: the elbow points of the flowchart edges,
\* the message endpoints and the lifeline ends of the sequence diagram, the
\* attachment points of the ERD lines
C19_ViewportBounds ==
    /\ (pc = "flow_done" /\ nodes # <<>>) =>
          LET vb == flowResult.viewBox IN
          /\ \A id \in Range(nodes) :
                BoxInside(NodeX(id), NodeY(id), NODE_WIDTH, NODE_HEIGHT, vb)
          /\ \A k \in 1..Len(edgePaths) : \A j \in 1..4 :
                StrictlyInside(edgePaths[k].points[j][1],
                               edgePaths[k].points[j][2], vb)
    /\ (pc = "seq_done" /\ participants # <<>>) =>
          LET vb == ViewBoxOf("sequence") IN
          /\ \A p \in Range(participants) :
                /\ BoxInside(participantX[p] - PARTICIPANT_WIDTH \div 2, 10,
                             PARTICIPANT_WIDTH, PARTICIPANT_HEIGHT, vb)
                /\ StrictlyInside(participantX[p], LIFELINE_Y_START, vb)
                /\ StrictlyInside(participantX[p], lifelineY2, vb)
          /\ \A k \in 1..Len(drawn) :
                /\ StrictlyInside(drawn[k].fromX, drawn[k].y, vb)
                /\ StrictlyInside(drawn[k].toX, drawn[k].y, vb)
    /\ (pc = "erd_done" /\ entities # <<>>) =>
          LET vb == erdResult.viewBox IN
          /\ \A k \in 1..Len(placedEntities) :
                BoxInside(placedEntities[k].x, placedEntities[k].y,
                          placedEntities[k].calculatedWidth,
                          placedEntities[k].calculatedHeight, vb)
          /\ \A k \in 1..Len(relationshipLines) :
                /\ StrictlyInside(relationshipLines[k].start.x,
                                  relationshipLines[k].start.y, vb)
                /\ StrictlyInside(relationshipLines[k].end.x,
                                  relationshipLines[k].end.y, vb)

\* an ERD of two rows drawn with a relationship line between the rows
C19_Witness ==
    /\ pc = "erd_done"
    /\ Len(relationshipLines) = 1
    /\ \E k \in 1..Len(placedEntities) : placedEntities[k].y > 0
    /\ relationshipLines[1].start.y # relationshipLines[1].end.y
    /\ IsFinite(erdResult.viewBox[3])

\* a cyclic flowchart drawn with an edge that leaves the last layer
C19_WitnessFlowchart ==
    /\ pc = "flow_done"
    /\ \E k \in 1..Len(edgePaths) :
          LET u == edges[edgePaths[k].edge].from
          IN  \A id \in Range(nodes) : NodeY(id) <= NodeY(u)
    /\ Len(nodes) >= 2

\* a sequence diagram drawn with two participants and a message between them
C19_WitnessSequence ==
    /\ pc = "seq_done"
    /\ Len(drawn) >= 1
    /\ drawn[1].fromX # drawn[1].toX

\* ========================================================= core/validate.js
\* validate(data, jsonString) for data.type = "erd" with well-formed entities
\* (objects with distinct names, attribute objects with distinct names and a
\* type) and an empty relationships array: what _validateERD reports about
\* primary and foreign keys. An entity and an attribute are named by their
\* place in the list; attr.fk is <<>> when absent and <<X, Y>> for "X.Y".
NoFk == <<>>

\* the attribute lists without a foreign key: every choice of pk flags
PkAttributeLists ==
    UNION {{[j \in 1..m |-> [name |-> j, pk |-> flags[j], fk |-> NoFk]] :
                flags \in [1..m -> BOOLEAN]} : m \in 0..MaxValAttributes}

\* entity lists that vary the primary keys
PkEntityLists ==
    UNION {{[i \in 1..n |-> [name |-> i, attributes |-> as[i]]] :
                as \in [1..n -> PkAttributeLists]} : n \in 0..MaxValEntities}

\* entity lists that vary one foreign key: entity i's attribute j refers to
\* "X.Y"; the first attribute of every entity is its primary key
FkEntityLists ==
    UNION {UNION {{[i \in 1..n |->
                     [name |-> i,
                      attributes |->
                         [j \in 1..sizes[i] |->
                             [name |-> j, pk |-> (j = 1),
                              fk |-> IF i = at[1] /\ j = at[2]
                                     THEN <<ref[1], ref[2]>> ELSE NoFk]]]] :
                     at \in {a \in (1..n) \X (1..MaxValAttributes) :
                                a[2] <= sizes[a[1]]},
                     ref \in (1..MaxValEntities) \X (1..MaxValAttributes)} :
                  sizes \in [1..n -> 0..MaxValAttributes]} :
           n \in 1..MaxValEntities}

ValidateInit ==
    /\ pc = "validate_entities"
    /\ erdData \in PkEntityLists \cup FkEntityLists
    /\ vIdx = 0
    /\ entityNames = {}
    /\ entityAttributes = EmptyMap
    /\ errors = <<>>
    /\ LayoutIdle
    /\ ShareIdle
    /\ SchedIdle

\* the errors an "attr.fk" of the form "X.Y" adds, given the names and the
\* attribute sets collected so far
fkErrors(fk, names, attributesOf, entity, attr) ==
    IF fk = NoFk THEN <<>>
    ELSE IF fk[1] \notin names
         THEN << [kind |-> "fk entity not found", entity |-> entity, attr |-> attr] >>
    ELSE IF fk[2] \notin attributesOf[fk[1]]
         THEN << [kind |-> "fk attribute not found", entity |-> entity, attr |-> attr] >>
    ELSE <<>>

\* "entity.attributes.forEach" from index j on;
\* st = [attributesOf, hasPk, errors]
RECURSIVE validateAttributes(_, _, _, _)
validateAttributes(entity, j, names, st) ==
    IF j > Len(entity.attributes) THEN st
    ELSE LET attr == entity.attributes[j]
             added == [st.attributesOf EXCEPT ![entity.name] = @ \cup {attr.name}]
         IN  validateAttributes(entity, j + 1, names,
                [attributesOf |-> added,
                 hasPk |-> st.hasPk \/ attr.pk,
                 errors |-> st.errors
                              \o fkErrors(attr.fk, names, added, entity.name, attr.name)])

\* mutant: an entity without attributes needs a primary key too
MissingPkAlsoWhenEmpty(hasPk, attributeCount) == ~hasPk

\* "if (!hasPk && entity.attributes.length > 0)"
MissingPk(hasPk, attributeCount) == ~hasPk /\ attributeCount > 0

\* _validateERD, one iteration of "data.entities.forEach"
ValidateEntity ==
    /\ pc = "validate_entities"
    /\ vIdx < Len(erdData)
    /\ LET entity == erdData[vIdx + 1]
           names == entityNames \cup {entity.name}
           st == validateAttributes(entity, 1, names,
                    [attributesOf |-> MapSet(entityAttributes, entity.name, {}),
                     hasPk |-> FALSE, errors |-> errors])
       IN  /\ entityNames' = names
           /\ entityAttributes' = st.attributesOf
           /\ errors' = IF MissingPk(st.hasPk, Len(entity.attributes))
                         THEN Append(st.errors,
                                  [kind |-> "no primary key",
                                   entity |-> entity.name, attr |-> 0])
                         ELSE st.errors
    /\ vIdx' = vIdx + 1
    /\ UNCHANGED <<pc, erdData>>

\* the entities are done; the relationships array is empty and validate
\* returns the errors
ValidateReturn ==
    /\ pc = "validate_entities"
    /\ vIdx >= Len(erdData)
    /\ pc' = "validate_done"
    /\ UNCHANGED validateVars

ValidateNext ==
    \/ ValidateEntity /\ UNCHANGED <<layoutVars, shareVars, schedVars>>
    \/ ValidateReturn /\ UNCHANGED <<layoutVars, shareVars, schedVars>>

ValidateSpec == ValidateInit /\ [][ValidateNext]_vars

\* --------------------------------------------------------- validate claims
HasError(kind, entity, attr) ==
    \E k \in 1..Len(errors) :
        errors[k] = [kind |-> kind, entity |-> entity, attr |-> attr]

HasPkAttribute(e) == \E j \in 1..Len(e.attributes) : e.attributes[j].pk

Validated == pc = "validate_done"

FkResolves(fk) ==
    /\ fk[1] \in 1..Len(erdData)
    /\ fk[2] \in 1..Len(erdData[fk[1]].attributes)

\* C22: for an attribute with fk = "X.Y" a foreign-key error is reported
\* exactly when X is not an entity of the list or Y is not an attribute of X,
\* wherever in the list X and Y stand
C22_FkVerdictOrderFree ==
    Validated =>
        \A i \in 1..Len(erdData) : \A j \in 1..Len(erdData[i].attributes) :
            LET fk == erdData[i].attributes[j].fk IN
            fk # NoFk =>
                ((HasError("fk entity not found", i, j)
                     \/ HasError("fk attribute not found", i, j))
                   <=> ~FkResolves(fk))

\* =============================================== core/url.js and script.js
\* Sharing: 'Copy Share URL' encodes the editor text into the URL hash and
\* "init" decodes the hash of the page it loads. A text is a list of code
\* points; a base64 string is a list of sextets 0..63 with Pad for "=".
SHARE_URL_MAX_LENGTH == 16384

\* quotation mark, reverse solidus, line feed, "n", "a", e-acute (two bytes
\* of UTF-8) and the euro sign (three bytes)
Quote == 34
Backslash == 92
LineFeed == 10
LetterN == 110
ShareAlphabet == {Quote, Backslash, LineFeed, 97, 233, 8364}
ShareTexts == SeqsUpTo(ShareAlphabet, MaxShareLen)

\* a page served locally, and a page whose address leaves room for a hash of
\* eight characters
LocationLengths == {17, SHARE_URL_MAX_LENGTH - 9}

Pad == 64

\* JSON.stringify of one character of a string
stringifyChar(c) ==
    IF c = Quote THEN <<Backslash, Quote>>
    ELSE IF c = Backslash THEN <<Backslash, Backslash>>
    ELSE IF c = LineFeed THEN <<Backslash, LetterN>>
    ELSE <<c>>

RECURSIVE stringifyChars(_)
stringifyChars(str) ==
    IF str = <<>> THEN <<>> ELSE stringifyChar(Head(str)) \o stringifyChars(Tail(str))

\* JSON.stringify(data) for a string
JSONstringify(str) == <<Quote>> \o stringifyChars(str) \o <<Quote>>

\* mutant: btoa on the string itself, each character cut to one byte
latin1(c) == <<c % 256>>

\* unescape(encodeURIComponent(c)): the UTF-8 bytes of one character
utf8(c) ==
    IF c < 128 THEN <<c>>
    ELSE IF c < 2048 THEN <<192 + (c \div 64), 128 + (c % 64)>>
    ELSE <<224 + (c \div 4096), 128 + ((c \div 64) % 64), 128 + (c % 64)>>

RECURSIVE utf8Bytes(_)
utf8Bytes(str) ==
    IF str = <<>> THEN <<>> ELSE utf8(Head(str)) \o utf8Bytes(Tail(str))

RECURSIVE btoa(_)
btoa(bytes) ==
    IF bytes = <<>> THEN <<>>
    ELSE IF Len(bytes) = 1
         THEN <<(bytes[1] \div 4), (bytes[1] % 4) * 16, Pad, Pad>>
    ELSE IF Len(bytes) = 2
         THEN <<(bytes[1] \div 4), (bytes[1] % 4) * 16 + (bytes[2] \div 16),
                (bytes[2] % 16) * 4, Pad>>
    ELSE <<(bytes[1] \div 4), (bytes[1] % 4) * 16 + (bytes[2] \div 16),
           (bytes[2] % 16) * 4 + (bytes[3] \div 64), (bytes[3] % 64)>>
         \o btoa(SubSeq(bytes, 4, Len(bytes)))

\* encodeData(data) = btoa(unescape(encodeURIComponent(JSON.stringify(data))))
encodeData(data) == btoa(utf8Bytes(JSONstringify(data)))

\* a decoding step either throws or gives a value
Thrown == [ok |-> FALSE, value |-> <<>>]
Value(v) == [ok |-> TRUE, value |-> v]

RECURSIVE atob(_)
atob(str) ==
    IF str = <<>> THEN Value(<<>>)
    ELSE IF Len(str) < 4 \/ str[1] = Pad \/ str[2] = Pad THEN Thrown
    ELSE IF str[3] = Pad
         THEN IF Len(str) = 4 /\ str[4] = Pad
              THEN Value(<<str[1] * 4 + (str[2] \div 16)>>) ELSE Thrown
    ELSE IF str[4] = Pad
         THEN IF Len(str) = 4
              THEN Value(<<str[1] * 4 + (str[2] \div 16),
                           (str[2] % 16) * 16 + (str[3] \div 4)>>)
              ELSE Thrown
    ELSE LET rest == atob(SubSeq(str, 5, Len(str)))
         IN  IF rest.ok
             THEN Value(<<str[1] * 4 + (str[2] \div 16),
                          (str[2] % 16) * 16 + (str[3] \div 4),
                          ((str[3] % 4)) * 64 + str[4]>> \o rest.value)
             ELSE Thrown

IsContinuation(b) == b >= 128 /\ b < 192

\* decodeURIComponent(escape(bytes)): the characters of a UTF-8 byte string
RECURSIVE utf8Decode(_)
utf8Decode(bytes) ==
    IF bytes = <<>> THEN Value(<<>>)
    ELSE LET b == bytes[1]
             size == IF b < 128 THEN 1
                     ELSE IF b >= 192 /\ b < 224 THEN 2
                     ELSE IF b >= 224 /\ b < 240 THEN 3
                     ELSE 0
         IN  IF size = 0 \/ Len(bytes) < size
                \/ \E k \in 2..size : ~IsContinuation(bytes[k])
             THEN Thrown
             ELSE LET c == IF size = 1 THEN b
                           ELSE IF size = 2 THEN (b - 192) * 64 + (bytes[2] - 128)
                           ELSE (b - 224) * 4096 + (bytes[2] - 128) * 64
                                   + (bytes[3] - 128)
                      rest == utf8Decode(SubSeq(bytes, size + 1, Len(bytes)))
                  IN  IF rest.ok THEN Value(<<c>> \o rest.value) ELSE Thrown

\* the characters of a JSON string literal after its opening quote, up to the
\* closing quote that must end the text
RECURSIVE parseChars(_)
parseChars(str) ==
    IF str = <<>> THEN Thrown
    ELSE IF str[1] = Quote
         THEN IF Len(str) = 1 THEN Value(<<>>) ELSE Thrown
    ELSE IF str[1] < 32 THEN Thrown
    ELSE IF str[1] = Backslash
         THEN IF Len(str) < 2 \/ str[2] \notin {Quote, Backslash, LetterN}
              THEN Thrown
              ELSE LET rest == parseChars(SubSeq(str, 3, Len(str)))
                   IN  IF rest.ok
                       THEN Value(<<IF str[2] = LetterN THEN LineFeed ELSE str[2]>>
                                    \o rest.value)
                       ELSE Thrown
    ELSE LET rest == parseChars(Tail(str))
         IN  IF rest.ok THEN Value(<<str[1]>> \o rest.value) ELSE Thrown

\* JSON.parse of a text that holds a string literal
JSONparse(str) ==
    IF str = <<>> \/ str[1] # Quote THEN Thrown ELSE parseChars(Tail(str))

\* decodeData(encodedString) = JSON.parse(decodeURIComponent(escape(atob(..))))
decodeData(encodedString) ==
    LET bytes == atob(encodedString)
        decoded == IF bytes.ok THEN utf8Decode(bytes.value) ELSE Thrown
    IN  IF decoded.ok THEN JSONparse(decoded.value) ELSE Thrown

ShareInit ==
    /\ pc = "share_editing"
    /\ editorValue \in ShareTexts
    /\ locationLength \in LocationLengths
    /\ clipboard = <<>>
    /\ shareOutcome = "none"
    /\ initialJson = <<>>
    /\ loadOutcome = "none"
    /\ LayoutIdle
    /\ ValidateIdle
    /\ SchedIdle

\* copyShareUrlBtn "click": url = origin + pathname + "#" + encoded
CopyShareUrl ==
    /\ pc = "share_editing"
    /\ LET encoded == encodeData(editorValue)
           urlLength == locationLength + 1 + Len(encoded)
       IN  IF urlLength > SHARE_URL_MAX_LENGTH
           THEN /\ shareOutcome' = "too long"
                /\ pc' = "share_refused"
                /\ UNCHANGED clipboard
           ELSE /\ shareOutcome' = "copied"
                /\ clipboard' = encoded
                /\ pc' = "share_copied"
    /\ UNCHANGED <<editorValue, locationLength, initialJson, loadOutcome>>

\* "init" on the page the copied URL opens: hashData = location.hash.substring(1)
LoadShareUrl ==
    /\ pc = "share_copied"
    /\ LET hashData == clipboard
           decoded == IF Len(hashData) > SHARE_URL_MAX_LENGTH
                      THEN Thrown ELSE decodeData(hashData)
       IN  IF decoded.ok
           THEN /\ initialJson' = decoded.value
                /\ loadOutcome' = "loaded"
           ELSE /\ loadOutcome' = "sample flowchart"
                /\ UNCHANGED initialJson
    /\ pc' = "share_loaded"
    /\ UNCHANGED <<editorValue, locationLength, clipboard, shareOutcome>>

ShareNext ==
    \/ CopyShareUrl /\ UNCHANGED <<layoutVars, validateVars, schedVars>>
    \/ LoadShareUrl /\ UNCHANGED <<layoutVars, validateVars, schedVars>>

ShareSpec == ShareInit /\ [][ShareNext]_vars

\* C23: every share URL the copy handler produces is accepted when the page
\* loads it, and decodes to exactly the editor text it was made from
C23_ShareUrlRoundTrip ==
    /\ shareOutcome = "copied" =>
          /\ Len(clipboard) <= SHARE_URL_MAX_LENGTH
          /\ decodeData(encodeData(editorValue)) = Value(editorValue)
    /\ pc = "share_loaded" =>
          /\ loadOutcome = "loaded"
          /\ initialJson = editorValue

\* a text with a character of three UTF-8 bytes was copied from the long
\* address, with a URL of exactly the maximum length, and loaded again
C23_Witness ==
    /\ pc = "share_loaded"
    /\ loadOutcome = "loaded"
    /\ editorValue = <<8364>>
    /\ locationLength + 1 + Len(clipboard) = SHARE_URL_MAX_LENGTH
    /\ initialJson = editorValue

\* ========================================== core/editor.js debounce, script.js
\* Render scheduling: the editor's "input" handler calls the debounced
\* renderDiagram, the buttons call renderDiagram itself. The browser runs a
\* timeout when it is due, before the clock moves on; the clock moves in steps
\* of half the debounce delay.
RENDER_DEBOUNCE_TIME == 500
ClockStep == RENDER_DEBOUNCE_TIME \div 2
EndOfTime == MaxTicks * ClockStep

\* "let jsonInputTimeout;": declared, and assigned nowhere
jsonInputTimeout == NoTimer

\* the argument lists the debounced function is called with; the "input"
\* handler passes none
ArgLists == {<<>>, <<1>>}

\* mutant: the timeout is left in place
clearNothing(pending, id) == pending

\* clearTimeout(id): an id that names no pending timeout clears nothing
clearTimeout(pending, id) == {t \in pending : t.id # id}

SchedInit ==
    /\ pc = "page_ready"
    /\ now = 0
    /\ timers = {}
    /\ nextTimer = 1
    /\ timeoutId = NoTimer
    /\ callLog = <<>>
    /\ renderLog = <<>>
    /\ LayoutIdle
    /\ ValidateIdle
    /\ ShareIdle

ExplicitRuns == {k \in 1..Len(renderLog) : renderLog[k].via = "explicit"}

\* renderDiagram(): "clearTimeout(jsonInputTimeout)", then it renders
renderDiagram(pending, via, call, args) ==
    /\ timers' = clearTimeout(pending, jsonInputTimeout)
    /\ renderLog' = Append(renderLog,
                        [via |-> via, call |-> call, args |-> args,
                         time |-> now, callsMade |-> Len(callLog)])

\* the function debounce returned is called:
\* "clearTimeout(timeoutId); timeoutId = setTimeout(() => func.apply(..), delay)"
DebouncedCall ==
    /\ pc = "page_ready"
    /\ Len(callLog) < MaxCalls
    /\ now + RENDER_DEBOUNCE_TIME <= EndOfTime
    /\ \E args \in ArgLists :
          /\ timers' = clearTimeout(timers, timeoutId)
                          \cup {[id |-> nextTimer, due |-> now + RENDER_DEBOUNCE_TIME,
                                 call |-> Len(callLog) + 1, args |-> args]}
          /\ callLog' = Append(callLog, [time |-> now, args |-> args])
    /\ timeoutId' = nextTimer
    /\ nextTimer' = nextTimer + 1
    /\ UNCHANGED <<pc, now, renderLog>>

\* Render button, Format JSON, a sample button or the splitter's release
ExplicitRender ==
    /\ pc = "page_ready"
    /\ Cardinality(ExplicitRuns) < MaxExplicit
    /\ renderDiagram(timers, "explicit", 0, <<>>)
    /\ UNCHANGED <<pc, now, nextTimer, timeoutId, callLog>>

\* the browser runs a timeout that is due: "func.apply(context, args)"
TimerFire ==
    /\ pc = "page_ready"
    /\ \E t \in timers :
          /\ t.due <= now
          /\ renderDiagram(timers \ {t}, "timer", t.call, t.args)
    /\ UNCHANGED <<pc, now, nextTimer, timeoutId, callLog>>

\* time passes while no timeout is due
Tick ==
    /\ pc = "page_ready"
    /\ now < EndOfTime
    /\ \A t \in timers : t.due > now
    /\ now' = now + ClockStep
    /\ UNCHANGED <<pc, timers, nextTimer, timeoutId, callLog, renderLog>>

SchedNext ==
    \/ DebouncedCall /\ UNCHANGED <<layoutVars, validateVars, shareVars>>
    \/ ExplicitRender /\ UNCHANGED <<layoutVars, validateVars, shareVars>>
    \/ TimerFire /\ UNCHANGED <<layoutVars, validateVars, shareVars>>
    \/ Tick /\ UNCHANGED <<layoutVars, validateVars, shareVars>>

\* the browser runs a due timeout, and time does not stop
SchedSpec ==
    /\ SchedInit
    /\ [][SchedNext]_vars
    /\ WF_vars(TimerFire /\ UNCHANGED <<layoutVars, validateVars, shareVars>>)
    /\ WF_vars(Tick /\ UNCHANGED <<layoutVars, validateVars, shareVars>>)

\* ----------------------------------------------------- scheduling claims
TimerRuns == {k \in 1..Len(renderLog) : renderLog[k].via = "timer"}

FiredFor(c) == \E k \in TimerRuns : renderLog[k].call = c

\* at most one timeout is pending, and when none is the last call has been
\* run; a run from the timeout belongs to the last call made, has that call's
\* arguments, comes no sooner than the delay after it, and happens once
DebounceSafe ==
    /\ Cardinality(timers) <= 1
    /\ timers = {} => (callLog = <<>> \/ FiredFor(Len(callLog)))
    /\ \A k \in TimerRuns :
          LET r == renderLog[k] IN
          /\ r.call = r.callsMade
          /\ r.args = callLog[r.call].args
          /\ r.time >= callLog[r.call].time + RENDER_DEBOUNCE_TIME
          /\ \A m \in TimerRuns : renderLog[m].call = r.call => m = k

\* C24: during a burst of calls the wrapped function is not invoked; after the
\* burst it is invoked exactly once, with the arguments of the last call; at
\* most one timeout is pending at any time
C24_DebounceBurst ==
    /\ []DebounceSafe
    /\ (timers # {}) ~> (timers = {})

\* a burst of two calls half a delay apart, with different arguments, ended
\* in one invocation, of the second call
C24_Witness ==
    /\ Len(callLog) = 2
    /\ callLog[1].args # callLog[2].args
    /\ callLog[2].time = callLog[1].time + ClockStep
    /\ TimerRuns # {}
    /\ \A k \in TimerRuns : renderLog[k].call = 2 /\ renderLog[k].args = callLog[2].args
    /\ timers = {}

\* C30: an explicit render cancels the pending debounced render: a run from
\* the timeout never follows an explicit run that came after the call that
\* set the timeout, so an edit and an explicit render within the delay give
\* one run of renderDiagram
C30_ExplicitRenderCancels ==
    \A i \in ExplicitRuns : \A j \in TimerRuns :
        i < j => renderLog[i].callsMade # renderLog[j].call

\* ------------------------------------------- flowchart: rows and layering
\* twice the horizontal midpoint of a layer: its first box's left edge plus
\* its last box's right edge
LayerExtentSum(layer) ==
    LET ids == layers[layer]
    IN  NodeX(ids[1]) + NodeX(ids[Len(ids)]) + NODE_WIDTH

\* C25: the layer indices are 0, 1, 2, ... without a gap; a node of layer r
\* has y = r * (NODE_HEIGHT + V_GAP); neighbours in a layer are NODE_WIDTH +
\* H_GAP apart in x; every layer has the same horizontal midpoint
C25_RowsAndCentering ==
    Positioned =>
        /\ DOMAIN layers = 0..(Cardinality(DOMAIN layers) - 1)
        /\ \A id \in Range(nodes) :
              NodeY(id) = nodeLayers[id] * (NODE_HEIGHT + V_GAP)
        /\ \A r \in DOMAIN layers :
              /\ layers[r] # <<>>
              /\ \A k \in 1..(Len(layers[r]) - 1) :
                    NodeX(layers[r][k + 1]) - NodeX(layers[r][k]) = NODE_WIDTH + H_GAP
              /\ LayerExtentSum(r) = LayerExtentSum(0)

\* two layers of different sizes, the lower one with two boxes side by side
C25_Witness ==
    /\ Positioned
    /\ DOMAIN layers = {0, 1}
    /\ Len(layers[0]) = 1
    /\ Len(layers[1]) = 2
    /\ NodeX(layers[1][2]) = NodeX(layers[1][1]) + NODE_WIDTH + H_GAP
    /\ NodeY(layers[1][1]) = NODE_HEIGHT + V_GAP

\* the nodes with an edge into v
Preds(v) == {edges[i].from : i \in {j \in ValidEdgeIdx : edges[j].to = v}}

\* length of the longest path that ends in v (acyclic graphs only)
RECURSIVE LongestPathTo(_)
LongestPathTo(v) ==
    IF Preds(v) = {} THEN 0
    ELSE 1 + MaxOf({LongestPathTo(u) : u \in Preds(v)})

\* C26: at every step the queue holds its nodes in non-decreasing layer order;
\* in an acyclic graph a node without predecessors has layer 0 and any other
\* node has 1 + the largest layer of its predecessors, which is the length of
\* the longest path that ends in it
C26_LongestPathLayering ==
    /\ \A i, j \in 1..Len(q) : i < j => nodeLayers[q[i]] <= nodeLayers[q[j]]
    /\ (Layered /\ Acyclic) =>
          \A v \in Range(nodes) :
              /\ nodeLayers[v] = IF Preds(v) = {} THEN 0
                                 ELSE 1 + MaxOf({nodeLayers[u] : u \in Preds(v)})
              /\ nodeLayers[v] = LongestPathTo(v)

\* an acyclic graph where a node has predecessors on two different layers and
\* stands one below the lower of them
C26_Witness ==
    /\ Layered
    /\ Acyclic
    /\ \E v \in Range(nodes) : \E u1, u2 \in Preds(v) :
          /\ nodeLayers[u1] < nodeLayers[u2]
          /\ nodeLayers[v] = nodeLayers[u2] + 1

\* ------------------------------------------------------ ERD: boxes apart
\* C27: every box is 150 to 300 wide and lies within 0 <= x, x + width <= 800;
\* two boxes of a row are at least 80 apart horizontally, two boxes of
\* different rows at least 80 apart vertically, so no two boxes overlap
C27_BoxesApart ==
    \A j \in 1..Len(placedEntities) :
        LET b == placedEntities[j] IN
        /\ ENTITY_MIN_WIDTH <= b.calculatedWidth
        /\ b.calculatedWidth <= ENTITY_MAX_WIDTH
        /\ 0 <= b.x
        /\ b.x + b.calculatedWidth <= 800
        /\ \A i \in 1..(j - 1) :
              LET a == placedEntities[i] IN
              IF a.y = b.y
              THEN b.x >= a.x + a.calculatedWidth + 80
              ELSE b.y >= a.y + a.calculatedHeight + 80

\* a row of two boxes, the second lower than the first, and a third box
\* wrapped below the taller one
C27_Witness ==
    /\ pc = "erd_placed"
    /\ Len(placedEntities) = 3
    /\ placedEntities[2].y = 0
    /\ placedEntities[2].x + placedEntities[2].calculatedWidth < 800
    /\ placedEntities[2].calculatedHeight < placedEntities[1].calculatedHeight
    /\ placedEntities[3].x = 0
    /\ placedEntities[3].y = placedEntities[1].calculatedHeight + 80

\* ------------------------------------------------- ERD: order of the input
\* the lists that hold the elements of es in some order
Reorderings(es) ==
    {[i \in 1..Len(es) |-> es[f[i]]] :
        f \in {g \in [1..Len(es) -> 1..Len(es)] :
                  \A a, b \in 1..Len(es) : g[a] = g[b] => a = b}}

\* layoutEntitiesGrid, "entities.forEach" from index k on;
\* st = [grid, placedEntities]
RECURSIVE placeFrom(_, _, _)
placeFrom(sorted, k, st) ==
    IF k > Len(sorted) THEN st
    ELSE LET entity == sorted[k]
             wraps == StartsNewRow(Len(st.placedEntities), st.grid.currentX,
                                   entity.calculatedWidth)
             x == IF wraps THEN 0 ELSE st.grid.currentX
             y == IF wraps
                  THEN st.grid.currentY + st.grid.rowMaxHeight + ENTITY_V_GAP
                  ELSE st.grid.currentY
             rowMax == IF wraps THEN 0 ELSE st.grid.rowMaxHeight
         IN  placeFrom(sorted, k + 1,
                [grid |-> [currentX |-> x + entity.calculatedWidth + ENTITY_H_GAP,
                           currentY |-> y,
                           rowMaxHeight |-> IF rowMax >= entity.calculatedHeight
                                            THEN rowMax ELSE entity.calculatedHeight],
                 placedEntities |-> Append(st.placedEntities,
                                           [entity EXCEPT !.x = x, !.y = y])])

\* layoutEntitiesGrid(entities)
layoutEntitiesGrid(es) ==
    placeFrom(SortByName(es), 1,
              [grid |-> [currentX |-> 0, currentY |-> 0, rowMaxHeight |-> 0],
               placedEntities |-> <<>>]).placedEntities

\* what renderERD places for the entities es: the measured copies, laid out
layoutERD(es) ==
    layoutEntitiesGrid(
        [i \in 1..Len(es) |->
            [name |-> es[i].name,
             calculatedWidth |-> CalculatedWidth(es[i].textWidth),
             calculatedHeight |-> CalculatedHeight(es[i].attrCount),
             x |-> 0, y |-> 0]])

\* C28: the entities given in any other order get the same box per name and
\* the same viewBox
C28_LayoutOrderFree ==
    (pc = "erd_done" /\ erdResult.success) =>
        \A p \in Reorderings(entities) :
            /\ EntityRects(layoutERD(p)) = EntityRects(placedEntities)
            /\ ERDViewBox(layoutERD(p)) = erdResult.viewBox

\* the same, for entities no two of which localeCompare takes for equal
OrderFreeWithoutTies ==
    (/\ pc = "erd_done" /\ erdResult.success
     /\ \A i, j \in 1..Len(entities) :
           CollationRank(entities[i].name) = CollationRank(entities[j].name) => i = j) =>
        \A p \in Reorderings(entities) :
            /\ EntityRects(layoutERD(p)) = EntityRects(placedEntities)
            /\ ERDViewBox(layoutERD(p)) = erdResult.viewBox

\* ------------------------------------------------ ERD: lines and the boxes
\* a parameter t of the segment p1 + t * (p2 - p1), as the fraction n / d, d > 0
Frac(n, d) == [n |-> n, d |-> d]

FracLess(a, b) == a.n * b.d < b.n * a.d

\* the open interval of t in which p + t * delta lies strictly between lo and
\* hi, as <<from, to>>; an empty interval is <<1, 0>>, the whole line <<-1, 2>>
Between(p, delta, lo, hi) ==
    IF delta > 0 THEN <<Frac(lo - p, delta), Frac(hi - p, delta)>>
    ELSE IF delta < 0 THEN <<Frac(p - hi, 0 - delta), Frac(p - lo, 0 - delta)>>
    ELSE IF lo < p /\ p < hi THEN <<Frac(0 - 1, 1), Frac(2, 1)>>
    ELSE <<Frac(1, 1), Frac(0, 1)>>

\* the straight segment from p1 to p2 has a point strictly inside the rectangle
CrossesInterior(p1, p2, rect) ==
    LET tx == Between(p1.x, p2.x - p1.x, rect.x, rect.x + rect.width)
        ty == Between(p1.y, p2.y - p1.y, rect.y, rect.y + rect.height)
    IN  \A from \in {Frac(0, 1), tx[1], ty[1]} :
            \A to \in {Frac(1, 1), tx[2], ty[2]} : FracLess(from, to)

\* C29: the line of a relationship between two different boxes runs from one
\* attachment point to the other without a point strictly inside either box
C29_LineClearOfBoxes ==
    (pc = "erd_done" /\ erdResult.success) =>
        \A k \in 1..Len(relationshipLines) :
            LET line == relationshipLines[k]
                rel == relationships[line.rel]
            IN  rel.from # rel.to =>
                    /\ ~CrossesInterior(line.start, line.end, BoxOf(rel.from))
                    /\ ~CrossesInterior(line.start, line.end, BoxOf(rel.to))

=============================================================================
